---- MODULE Spec2Model ----
(***************************************************************************)
(* Document processing pipeline of the archive: the relational store       *)
(* (raw_files rows, entries rows), and the worker processes that run the   *)
(* enrichment, embedding and segmentation stages against it.               *)
(*                                                                         *)
(* The store is PostgreSQL at READ COMMITTED: a statement sees committed   *)
(* rows only; SELECT ... FOR UPDATE SKIP LOCKED locks the rows it returns  *)
(* until the transaction ends and passes over rows another transaction     *)
(* holds; a commit or a rollback releases the locks.                       *)
(***************************************************************************)
EXTENDS Integers, Sequences, FiniteSets, TLC

\* ---------------------------------------------------------------- bounds
NumWorkers == 2
NumDocs == 3
DocBatchLimit == 2
MaxFaults == 1
NumChunks == 1
EnrichBatchLimit == 1
EmbedBatchLimit == 1
MaxResets == 1
NumFiles == 2
MaxParas == 2
NumPaths == 2
NumContents == 2
MaxMtime == 2
MaxFsChanges == 1
NumSearchDocs == 2
NumSearchEntries == 2
MaxK == 2
MaxIterations == 2
MaxToggles == 2
MaxTicks == 5
NumEmbedChunks == 3

Workers == 1..NumWorkers
Docs == 1..NumDocs
NoWorker == 0
Chunks == 1..NumChunks
\* raw_files rows with status = 'ok', as the segment stage sees them
Files == 1..NumFiles
\* the files of the source folders that pass should_process
Paths == 1..NumPaths
\* the byte contents a file can have; a SHA-256 digest stands for the bytes it
\* was computed from
Contents == 1..NumContents
Mtimes == 1..MaxMtime
\* raw_files.id; sha256 is unique, so there are never more rows than contents
RowIds == 1..NumContents

\* enrich_entries.py: max retry attempts before marking as error
MAX_RETRIES == 3
\* enrich_entries.py: threads of the pool of one enrichment batch
ENRICH_WORKERS == 3

\* LENGTH(rf.raw_text) > 100 in the batch query of enrich_docs_batch
MinRawTextLen == 100
\* the raw_text lengths the documents of the model have
RawTextLens == {80, 200}

VARIABLES
    \* raw_files rows
    doc_status,       \* raw_files.doc_status
    raw_text_len,     \* LENGTH(raw_files.raw_text)
    doc_summary_ok,   \* doc_summary IS NOT NULL AND LENGTH(doc_summary) > 10
    doc_embedding,    \* raw_files.doc_embedding IS NOT NULL
    row_lock,         \* the worker whose open transaction holds the row lock
    \* worker processes, document tier
    pc,               \* where each worker is in its current batch function
    doc_ids,          \* the batch the worker selected (ordered by id)
    pos,              \* index of the loop `for doc_id in doc_ids`
    result,           \* what enrich_single_doc returned for doc_ids[pos]
    tx_status,        \* doc_status written in the open transaction, not committed
    \* history
    llm_callers,      \* workers whose generate_json call was made for the document
    embed_writers,    \* workers that committed a doc embedding outcome for the document
    faults,           \* crashes and database errors so far (bounded by MaxFaults)
    \* entries rows
    status,           \* entries.status
    retry_count,      \* entries.retry_count
    embedding,        \* entries.embedding IS NOT NULL
    metadata,         \* entries.title, author, tags, summary, category are stored
    \* worker processes, chunk tier
    cpc,              \* where each worker is in enrich_entries.main / embed_entries.main
    entry_ids,        \* ids of the batch not yet handed to a pool thread
    loaded,           \* per pool thread: the Entry object as loaded (its snapshot)
    entries,          \* embed_entries.main: the Entry objects of the current batch
    emb_result,       \* embed_batch: what embed_single returned for each entry
    processed,        \* embed_entries.main: processed
    total_needing_embed,
    resets,           \* calls of the reset endpoints so far (bounded by MaxResets)
    \* history
    failed_attempts,  \* failed LLM attempts on the chunk since its last reset
    \* segment stage
    raw_text,         \* per file: raw_files.raw_text, as the paragraphs it is made of
    has_links,        \* per file: extract_links_from_text(raw_text) is not empty
    link_rows,        \* per file: document_links rows of the file are stored
    entry_rows,       \* the entries rows the segment stage has committed
    spc,              \* where each worker is in segment_entries.main
    files,            \* main: the files of `for file in files` still to come
    file,             \* segment_file: the file being segmented
    seg_pos,          \* segment_file: index of `for i, seg in enumerate(segments)`
    new_entries,      \* segment_file: new_entries
    \* history
    made_entries,     \* the worker's run of the stage, not yet over, has stored an entries row
    made_links,       \* the worker's run of the stage, not yet over, has stored a document_links row
    seg_run,          \* whether the worker's run follows a whole run with nothing written since
    \* ingestion
    fs,               \* the source tree: bytes and st_mtime of each file
    raw_files,        \* raw_files rows by id: path, mtime, size_bytes, sha256, status
    ipc,              \* where each worker is in ingest_files.main
    path_cache,       \* main: path_cache
    scan,             \* main: the files root.rglob has still to yield
    pending_write,    \* ingest_file: the changes of the session before db.commit()
    new_files,        \* main: new_files
    updated_files,    \* main: updated_files
    skipped_files,    \* main: skipped_files
    errors,           \* main: errors
    fs_changes,       \* changes made to the source tree so far (bounded by MaxFsChanges)
    \* history
    hashed,           \* the worker's latest ingest_file call ran compute_sha256
    extracted,        \* the worker's latest ingest_file call ran extract_text
    unchanged_pass,   \* whether the worker's pass follows a whole pass with nothing changed since
    \* search
    search_docs,      \* raw_files rows as the search sees them for the query
    search_entries,   \* entries rows as the search sees them for the query
    embed_up,         \* the embedding backend answers: embed_text returns a vector
    response,         \* what the latest search call returned
    \* worker loop
    state_file,       \* worker_state.json: the live enable flags
    state,            \* run_pipeline: state, as read at the top of the cycle
    lpc,              \* where run_pipeline is: the phase and the step within it
    iteration,        \* run_pipeline: i of `for i in range(total_iterations)`
    progress,         \* worker_progress.json: the status written for each phase
    toggles,          \* writes to worker_state.json so far (bounded by MaxToggles)
    \* history
    turned_off,       \* per phase: where the cycle was when its flag was last turned off
    \* workers rows
    worker_status,    \* workers.status ("none": no row)
    last_heartbeat,   \* age of workers.last_heartbeat, in ticks of the clock
    worker_config,    \* workers.config["phases"] of the primary worker
    last_heartbeat_time, \* run_pipeline: age of last_heartbeat_time, in ticks
    \* one call of _ollama_embed
    ecpc,             \* "idle", "request" (in the for loop), "returned"
    attempt,          \* the loop variable attempt
    prompt,           \* len(prompt)
    call_result,      \* what the call returned: "none" (not yet), "vector", "null"
    outcomes,         \* the requests sent so far: chars sent and the backend's answer
    \* the passes of embed_entries.main over enriched entries
    ppc,              \* "idle" or "loop" (inside `while processed < pass_total`)
    pass_embedding,   \* entries.embedding IS NOT NULL, per enriched entry
    call_succeeds,    \* whether embed_text gives a vector for the entry
    pass_processed,   \* main: processed
    pass_total        \* main: total_needing_embed

docVars == <<doc_status, raw_text_len, doc_summary_ok, doc_embedding, row_lock,
             pc, doc_ids, pos, result, tx_status, llm_callers, embed_writers,
             faults>>

chunkVars == <<status, retry_count, embedding, metadata, cpc, entry_ids, loaded, entries,
               emb_result, processed, total_needing_embed, resets,
               failed_attempts>>

segVars == <<raw_text, has_links, link_rows, entry_rows, spc, files, file, seg_pos,
             new_entries, made_entries, made_links, seg_run>>

ingestVars == <<fs, raw_files, ipc, path_cache, scan, pending_write, new_files,
                updated_files, skipped_files, errors, fs_changes, hashed, extracted,
                unchanged_pass>>

searchVars == <<search_docs, search_entries, embed_up, response>>

loopVars == <<state_file, state, lpc, iteration, progress, toggles, turned_off>>

workerVars == <<worker_status, last_heartbeat, worker_config, last_heartbeat_time>>

embedVars == <<ecpc, attempt, prompt, call_result, outcomes,
               ppc, pass_embedding, call_succeeds, pass_processed, pass_total>>

vars == <<docVars, chunkVars, segVars, ingestVars, searchVars, loopVars, workerVars,
          embedVars>>

otherThanDoc == <<chunkVars, segVars, ingestVars, searchVars, loopVars, workerVars, embedVars>>
otherThanChunk == <<docVars, segVars, ingestVars, searchVars, loopVars, workerVars, embedVars>>
otherThanSeg == <<docVars, chunkVars, ingestVars, searchVars, loopVars, workerVars, embedVars>>
otherThanIngest == <<docVars, chunkVars, segVars, searchVars, loopVars, workerVars, embedVars>>
otherThanSearch == <<docVars, chunkVars, segVars, ingestVars, loopVars, workerVars, embedVars>>
otherThanLoop == <<docVars, chunkVars, segVars, ingestVars, searchVars, embedVars>>
otherThanEmbed == <<docVars, chunkVars, segVars, ingestVars, searchVars, loopVars,
                    workerVars>>

\* ------------------------------------------------------------- helpers
Range(s) == {s[i] : i \in 1..Len(s)}

Min(a, b) == IF a < b THEN a ELSE b

\* ORDER BY id LIMIT :limit over a set of ids
RECURSIVE FirstN(_, _)
FirstN(S, n) ==
    IF n = 0 \/ S = {} THEN <<>>
    ELSE LET m == CHOOSE x \in S : \A y \in S : x <= y
         IN  <<m>> \o FirstN(S \ {m}, n - 1)

\* FOR UPDATE SKIP LOCKED: a row locked by another transaction is passed over
SkipLocked(w, d) == row_lock[d] \in {NoWorker, w}

\* the batch query of enrich_docs_batch as a plain SELECT: no FOR UPDATE SKIP LOCKED
EnrichDocsCandidatesNoLock(w) ==
    {d \in Docs : /\ doc_status[d] = "pending"
                  /\ raw_text_len[d] > MinRawTextLen}

\* the batch query of enrich_docs_batch if it also took back the failed documents
EnrichDocsCandidatesRetryError(w) ==
    {d \in Docs : /\ doc_status[d] \in {"pending", "error"}
                  /\ raw_text_len[d] > MinRawTextLen
                  /\ SkipLocked(w, d)}

\* the WHERE clause and locking clause of the batch query of enrich_docs_batch
EnrichDocsCandidates(w) ==
    {d \in Docs : /\ doc_status[d] = "pending"
                  /\ raw_text_len[d] > MinRawTextLen
                  /\ SkipLocked(w, d)}

\* the batch query of embed_docs_batch as a plain SELECT: no FOR UPDATE SKIP LOCKED
EmbedDocsCandidatesNoLock(w) ==
    {d \in Docs : /\ doc_status[d] = "enriched"
                  /\ doc_summary_ok[d]}

\* the WHERE clause and locking clause of the batch query of embed_docs_batch
EmbedDocsCandidates(w) ==
    {d \in Docs : /\ doc_status[d] = "enriched"
                  /\ doc_summary_ok[d]
                  /\ SkipLocked(w, d)}

\* no raw_files row with this id
NoRow == [path |-> 0, mtime |-> 0, size_bytes |-> 0, sha256 |-> 0, status |-> "none"]

\* path_str not in path_cache
NoCache == [mtime |-> 0, size |-> 0, status |-> "none"]

\* nothing to commit
NoWrite == [id |-> 0, path |-> 0, loaded |-> NoRow, row |-> NoRow, result |-> "none"]

\* no Entry object held for the chunk
NoEntry == [status |-> "none", retry_count |-> 0, embedding |-> FALSE]

NoTx == [d \in Docs |-> "none"]

\* commit or rollback of w's transaction releases every row lock it holds
ReleaseLocks(w) == [d \in Docs |-> IF row_lock[d] = w THEN NoWorker ELSE row_lock[d]]

\* segment_entries.py: filter out very short segments
MIN_ENTRY_LENGTH == 50
\* segment_entries.py: target max chars per segment
MAX_ENTRY_LENGTH == 4000
\* segment_entries.py: overlap between segments for context continuity
OVERLAP_LENGTH == 200

\* The paragraphs the texts of the model are made of.  A paragraph is known by
\* its normalised text (norm: what ' '.join(text.lower().split()) gives for it)
\* and by whether it is written in upper case; ParaLens gives the number of
\* characters of the paragraph of each norm: one below MIN_ENTRY_LENGTH, one of
\* exactly MAX_ENTRY_LENGTH and one above it.
ParaLens == <<40, 4000, 9000>>
Norms == 1..Len(ParaLens)
Paras == [norm : Norms, upper : {FALSE}] \cup {[norm |-> 2, upper |-> TRUE]}
NoPara == [norm |-> 0, upper |-> FALSE]

\* the texts a file can hold: up to MaxParas paragraphs with a blank line
\* between them
Texts == UNION {[1..n -> Paras] : n \in 0..MaxParas}

\* raw_files rows and entries rows of the archive the search runs over
SearchDocs == 1..NumSearchDocs
SearchEntries == 1..NumSearchEntries
\* entries.file_id: the entries are the chunks of the first document, the other
\* documents have none
file_id(e) == 1

\* search.py: the search modes
SEARCH_MODE_VECTOR == "vector"
SEARCH_MODE_KEYWORD == "keyword"
SEARCH_MODE_HYBRID == "hybrid"
SearchModes == {SEARCH_MODE_VECTOR, SEARCH_MODE_KEYWORD, SEARCH_MODE_HYBRID}

\* no search call made yet
NoResponse == [op |-> "none", mode |-> "none", k |-> 0, filters |-> FALSE,
               embedded |-> FALSE, embedded_again |-> FALSE, stage |-> "none",
               entries |-> <<>>, docs |-> <<>>, doc_rows |-> {}, entry_rows |-> {}]

\* worker_loop.py: the phases of one cycle of run_pipeline, in their order
Phases == <<"ingest", "segment", "enrich_docs", "enrich", "embed_docs", "embed">>
PhaseNames == Range(Phases)
\* the phases run_pipeline runs as a loop of batches
BatchedPhases == {"enrich_docs", "enrich", "embed_docs", "embed"}
Flags == PhaseNames \cup {"running"}

\* the enriched entries of the embedding passes
EmbedChunks == 1..NumEmbedChunks

\* get_state: default_state
default_state == [f \in Flags |-> TRUE]

\* services/workers.py: worker status constants
STATUS_STARTING == "starting"
STATUS_ACTIVE == "active"
STATUS_IDLE == "idle"
STATUS_STALE == "stale"
STATUS_STOPPED == "stopped"
\* services/workers.py: how long before a worker is considered stale
STALE_THRESHOLD_SECONDS == 120
\* worker_loop.py: heartbeat interval in seconds
HEARTBEAT_INTERVAL == 30
\* the seconds between two ticks of the clock
SecondsPerTick == 30
\* the worker process that runs run_pipeline
LoopWorker == CHOOSE w \in Workers : \A v \in Workers : w <= v

TypeOK ==
    /\ embed_up \in BOOLEAN
    /\ state_file \in [Flags -> BOOLEAN]
    /\ state \in [Flags -> BOOLEAN]
    /\ iteration \in 0..MaxIterations
    /\ progress \in [BatchedPhases -> {"none", "running", "stopped", "idle"}]
    /\ toggles \in 0..MaxToggles
    /\ turned_off \in [PhaseNames -> {"no", "before_turn", "at_gate", "in_loop"}]
    /\ doc_status \in [Docs -> {"pending", "enriching", "enriched", "embedded",
                                "error", "embed_error"}]
    /\ raw_text_len \in [Docs -> RawTextLens]
    /\ doc_summary_ok \in [Docs -> BOOLEAN]
    /\ doc_embedding \in [Docs -> BOOLEAN]
    /\ row_lock \in [Docs -> Workers \cup {NoWorker}]
    /\ pc \in [Workers -> {"idle", "ed_select", "ed_mark", "ed_loop", "ed_store",
                           "em_select", "em_embed", "down"}]
    /\ \A w \in Workers : Range(doc_ids[w]) \subseteq Docs
    /\ pos \in [Workers -> 0..(NumDocs + 1)]
    /\ result \in [Workers -> {"none", "ok", "failed"}]
    /\ llm_callers \in [Docs -> SUBSET Workers]
    /\ embed_writers \in [Docs -> SUBSET Workers]
    /\ faults \in 0..MaxFaults
    /\ status \in [Chunks -> {"pending", "enriched", "error"}]
    /\ retry_count \in [Chunks -> 0..(MAX_RETRIES + NumWorkers + MaxResets)]
    /\ embedding \in [Chunks -> BOOLEAN]
    /\ metadata \in [Chunks -> BOOLEAN]
    /\ cpc \in [Workers -> {"idle", "enrich", "embed_loop", "embed"}]
    /\ \A w \in Workers : entry_ids[w] \subseteq Chunks /\ entries[w] \subseteq Chunks
    /\ processed \in [Workers -> 0..(NumChunks + EmbedBatchLimit)]
    /\ resets \in 0..MaxResets
    /\ failed_attempts \in [Chunks -> 0..(MAX_RETRIES + 1)]
    /\ raw_text \in [Files -> Texts]
    /\ has_links \in [Files -> BOOLEAN]
    /\ link_rows \in [Files -> BOOLEAN]
    /\ \A r \in entry_rows : r.file_id \in Files /\ r.by \in Workers
    /\ spc \in [Workers -> {"idle", "files", "segments"}]
    /\ files \in [Workers -> SUBSET Files]
    /\ file \in [Workers -> Files \cup {0}]
    /\ last_heartbeat \in [Workers -> 0..MaxTicks]
    /\ last_heartbeat_time \in 0..MaxTicks
    /\ worker_config \in [Flags -> BOOLEAN]
    /\ \A w \in Workers : worker_status[w] \in STRING

\* ------------------------------------------------------------------ Init
\* raw_files after ingestion: every row has the column default
\* doc_status = 'pending', no summary, no embedding; no transaction is open.
DocInit ==
    /\ doc_status = [d \in Docs |-> "pending"]
    /\ doc_summary_ok = [d \in Docs |-> FALSE]
    /\ doc_embedding = [d \in Docs |-> FALSE]
    /\ row_lock = [d \in Docs |-> NoWorker]
    /\ pc = [w \in Workers |-> "idle"]
    /\ doc_ids = [w \in Workers |-> <<>>]
    /\ pos = [w \in Workers |-> 0]
    /\ result = [w \in Workers |-> "none"]
    /\ tx_status = [w \in Workers |-> NoTx]
    /\ llm_callers = [d \in Docs |-> {}]
    /\ embed_writers = [d \in Docs |-> {}]
    /\ faults = 0

\* entries after segmentation: every row is created with status = 'pending',
\* retry_count at its default 0 and no embedding; no worker is in a batch.
ChunkInit ==
    /\ status = [c \in Chunks |-> "pending"]
    /\ retry_count = [c \in Chunks |-> 0]
    /\ embedding = [c \in Chunks |-> FALSE]
    /\ metadata = [c \in Chunks |-> FALSE]
    /\ cpc = [w \in Workers |-> "idle"]
    /\ entry_ids = [w \in Workers |-> {}]
    /\ loaded = [w \in Workers |-> [c \in Chunks |-> NoEntry]]
    /\ entries = [w \in Workers |-> {}]
    /\ emb_result = [w \in Workers |-> [c \in Chunks |-> "none"]]
    /\ processed = [w \in Workers |-> 0]
    /\ total_needing_embed = [w \in Workers |-> 0]
    /\ resets = 0
    /\ failed_attempts = [c \in Chunks |-> 0]

\* Before the first segmentation pass: no entries row, no worker in the stage.
SegInit ==
    /\ entry_rows = {}
    /\ spc = [w \in Workers |-> "idle"]
    /\ files = [w \in Workers |-> {}]
    /\ file = [w \in Workers |-> 0]
    /\ seg_pos = [w \in Workers |-> 0]
    /\ new_entries = [w \in Workers |-> {}]
    /\ link_rows = [f \in Files |-> FALSE]
    /\ made_entries = [w \in Workers |-> FALSE]
    /\ made_links = [w \in Workers |-> FALSE]
    /\ seg_run = [w \in Workers |-> "no"]

\* one fixed text per file for the specifications that do not segment
FixedTexts == [f \in Files |-> <<[norm |-> 2, upper |-> FALSE]>>]

\* Before the first ingestion pass: no raw_files row, no worker in the stage.
IngestInit ==
    /\ raw_files = [i \in RowIds |-> NoRow]
    /\ ipc = [w \in Workers |-> "idle"]
    /\ path_cache = [w \in Workers |-> [p \in Paths |-> NoCache]]
    /\ scan = [w \in Workers |-> {}]
    /\ pending_write = [w \in Workers |-> NoWrite]
    /\ new_files = [w \in Workers |-> 0]
    /\ updated_files = [w \in Workers |-> 0]
    /\ skipped_files = [w \in Workers |-> 0]
    /\ errors = [w \in Workers |-> 0]
    /\ fs_changes = 0
    /\ hashed = [w \in Workers |-> FALSE]
    /\ extracted = [w \in Workers |-> FALSE]
    /\ unchanged_pass = [w \in Workers |-> "no"]

\* one fixed source tree for the specifications that do not ingest
FixedTree == [p \in Paths |-> [bytes |-> 1, mtime |-> 1]]

\* no archive to search and no search call made
SearchInit ==
    /\ search_docs = [d \in SearchDocs |->
                        [doc_embedding |-> FALSE, vector_score |-> d,
                         keyword_score |-> 0, extension |-> 1]]
    /\ search_entries = [e \in SearchEntries |->
                           [embedding |-> FALSE, vector_score |-> e, keyword_score |-> 0]]
    /\ embed_up = TRUE
    /\ response = NoResponse

\* run_pipeline before its first cycle: save_state(get_state()) has written
\* the default flags
LoopInit ==
    /\ state_file = default_state
    /\ state = default_state
    /\ lpc = <<"top", "top">>
    /\ iteration = 0
    /\ progress = [p \in BatchedPhases |-> "none"]
    /\ toggles = 0
    /\ turned_off = [p \in PhaseNames |-> "no"]
    /\ worker_status = [w \in Workers |-> IF w = LoopWorker THEN STATUS_STARTING ELSE "none"]
    /\ last_heartbeat = [w \in Workers |-> 0]
    /\ worker_config = default_state
    /\ last_heartbeat_time = MaxTicks
    /\ ecpc = "idle"
    /\ attempt = 0
    /\ prompt = 0
    /\ call_result = "none"
    /\ outcomes = <<>>
    /\ ppc = "idle"
    /\ pass_embedding = [c \in EmbedChunks |-> FALSE]
    /\ pass_processed = 0
    /\ pass_total = 0

\* The document tier is explored over every mix of short and long documents.
Init ==
    /\ DocInit
    /\ ChunkInit
    /\ SegInit
    /\ IngestInit
    /\ SearchInit
    /\ LoopInit
    /\ call_succeeds = [c \in EmbedChunks |-> TRUE]
    /\ fs = FixedTree
    /\ raw_text_len \in [Docs -> RawTextLens]
    /\ raw_text = FixedTexts
    /\ has_links = [f \in Files |-> FALSE]

\* The chunk tier reads neither raw_text nor the segments of the files.
InitChunkTier ==
    /\ DocInit
    /\ ChunkInit
    /\ SegInit
    /\ IngestInit
    /\ SearchInit
    /\ LoopInit
    /\ call_succeeds = [c \in EmbedChunks |-> TRUE]
    /\ fs = FixedTree
    /\ raw_text_len = [d \in Docs |-> 200]
    /\ raw_text = FixedTexts
    /\ has_links = [f \in Files |-> FALSE]

\* The segment stage is explored over every text of the first file, with or
\* without links in it, next to files of at most one paragraph.
InitSplitStage ==
    /\ DocInit
    /\ ChunkInit
    /\ SegInit
    /\ IngestInit
    /\ SearchInit
    /\ LoopInit
    /\ call_succeeds = [c \in EmbedChunks |-> TRUE]
    /\ fs = FixedTree
    /\ raw_text_len = [d \in Docs |-> 200]
    /\ raw_text \in [Files -> Texts]
    /\ \A f \in Files \ {1} : Len(raw_text[f]) <= 1
    /\ has_links \in [Files -> BOOLEAN]
    /\ \A f \in Files : has_links[f] => raw_text[f] # <<>>

\* Several workers in the segment stage are explored over files of at most one
\* paragraph.
InitSegStage ==
    /\ InitSplitStage
    /\ \A f \in Files : Len(raw_text[f]) <= 1

\* ------------------------------------------- enrich_docs_batch (one worker)
\* db = SessionLocal(); get_llm_config(db); LLMClient(llm_config)
EnrichDocsBegin(w) ==
    /\ pc[w] = "idle"
    /\ pc' = [pc EXCEPT ![w] = "ed_select"]
    /\ UNCHANGED <<doc_status, raw_text_len, doc_summary_ok, doc_embedding, row_lock,
                   doc_ids, pos, result, tx_status, llm_callers, embed_writers, faults>>
    /\ UNCHANGED otherThanDoc

\* SELECT rf.id ... WHERE doc_status = 'pending' ... ORDER BY rf.id LIMIT :limit
\* FOR UPDATE SKIP LOCKED; an empty batch returns 0 and closes the session
EnrichDocsSelect(w) ==
    /\ pc[w] = "ed_select"
    /\ LET batch == FirstN(EnrichDocsCandidates(w), DocBatchLimit)
       IN  IF batch = <<>>
           THEN /\ pc' = [pc EXCEPT ![w] = "idle"]
                /\ UNCHANGED <<doc_ids, row_lock>>
           ELSE /\ pc' = [pc EXCEPT ![w] = "ed_mark"]
                /\ doc_ids' = [doc_ids EXCEPT ![w] = batch]
                /\ row_lock' = [d \in Docs |-> IF d \in Range(batch) THEN w
                                               ELSE row_lock[d]]
    /\ UNCHANGED <<doc_status, raw_text_len, doc_summary_ok, doc_embedding,
                   pos, result, tx_status, llm_callers, embed_writers, faults>>
    /\ UNCHANGED otherThanDoc

\* UPDATE raw_files SET doc_status = 'enriching' WHERE id = ANY(:ids); db.commit()
EnrichDocsMark(w) ==
    /\ pc[w] = "ed_mark"
    /\ doc_status' = [d \in Docs |-> IF d \in Range(doc_ids[w]) THEN "enriching"
                                     ELSE doc_status[d]]
    /\ row_lock' = ReleaseLocks(w)
    /\ pos' = [pos EXCEPT ![w] = 1]
    /\ pc' = [pc EXCEPT ![w] = "ed_loop"]
    /\ UNCHANGED <<raw_text_len, doc_summary_ok, doc_embedding, doc_ids, result,
                   tx_status, llm_callers, embed_writers, faults>>
    /\ UNCHANGED otherThanDoc

\* for doc_id in doc_ids: result = enrich_single_doc(raw_file, llm_client).
\* The sample can be too short once stripped (no LLM call, None); otherwise
\* generate_json is called and returns a result or None.
EnrichDocsCall(w) ==
    /\ pc[w] = "ed_loop"
    /\ pos[w] <= Len(doc_ids[w])
    /\ \E r \in {"ok", "failed", "insufficient"} :
         /\ result' = [result EXCEPT ![w] = IF r = "ok" THEN "ok" ELSE "failed"]
         /\ llm_callers' = IF r = "insufficient" THEN llm_callers
                           ELSE [llm_callers EXCEPT ![doc_ids[w][pos[w]]] = @ \cup {w}]
    /\ pc' = [pc EXCEPT ![w] = "ed_store"]
    /\ UNCHANGED <<doc_status, raw_text_len, doc_summary_ok, doc_embedding, row_lock,
                   doc_ids, pos, tx_status, embed_writers, faults>>
    /\ UNCHANGED otherThanDoc

\* if result: doc_summary, doc_status = 'enriched' else: doc_status = 'error';
\* db.commit().  The summary is "<title>. <summary>", of any length.
EnrichDocsStore(w) ==
    /\ pc[w] = "ed_store"
    /\ LET d == doc_ids[w][pos[w]]
       IN  IF result[w] = "ok"
           THEN /\ doc_status' = [doc_status EXCEPT ![d] = "enriched"]
                /\ \E long \in BOOLEAN :
                     doc_summary_ok' = [doc_summary_ok EXCEPT ![d] = long]
           ELSE /\ doc_status' = [doc_status EXCEPT ![d] = "error"]
                /\ UNCHANGED doc_summary_ok
    /\ pos' = [pos EXCEPT ![w] = @ + 1]
    /\ result' = [result EXCEPT ![w] = "none"]
    /\ pc' = [pc EXCEPT ![w] = "ed_loop"]
    /\ UNCHANGED <<raw_text_len, doc_embedding, row_lock, doc_ids, tx_status,
                   llm_callers, embed_writers, faults>>
    /\ UNCHANGED otherThanDoc

\* the loop is over: return enriched_count; finally: db.close()
EnrichDocsDone(w) ==
    /\ pc[w] = "ed_loop"
    /\ pos[w] > Len(doc_ids[w])
    /\ pc' = [pc EXCEPT ![w] = "idle"]
    /\ doc_ids' = [doc_ids EXCEPT ![w] = <<>>]
    /\ pos' = [pos EXCEPT ![w] = 0]
    /\ UNCHANGED <<doc_status, raw_text_len, doc_summary_ok, doc_embedding, row_lock,
                   result, tx_status, llm_callers, embed_writers, faults>>
    /\ UNCHANGED otherThanDoc

\* except Exception: db.rollback(); return 0 -- a database error in the batch.
\* What was committed stays committed; the open transaction is undone.
EnrichDocsAbort(w) ==
    /\ faults < MaxFaults
    /\ faults' = faults + 1
    /\ pc[w] \in {"ed_mark", "ed_loop", "ed_store"}
    /\ row_lock' = ReleaseLocks(w)
    /\ pc' = [pc EXCEPT ![w] = "idle"]
    /\ doc_ids' = [doc_ids EXCEPT ![w] = <<>>]
    /\ pos' = [pos EXCEPT ![w] = 0]
    /\ result' = [result EXCEPT ![w] = "none"]
    /\ UNCHANGED <<doc_status, raw_text_len, doc_summary_ok, doc_embedding,
                   tx_status, llm_callers, embed_writers>>
    /\ UNCHANGED otherThanDoc

\* --------------------------------------------- embed_docs_batch (one worker)
\* db = SessionLocal()
EmbedDocsBegin(w) ==
    /\ pc[w] = "idle"
    /\ pc' = [pc EXCEPT ![w] = "em_select"]
    /\ UNCHANGED <<doc_status, raw_text_len, doc_summary_ok, doc_embedding, row_lock,
                   doc_ids, pos, result, tx_status, llm_callers, embed_writers, faults>>
    /\ UNCHANGED otherThanDoc

\* SELECT id, doc_summary ... WHERE doc_status = 'enriched' ... ORDER BY id
\* LIMIT :limit FOR UPDATE SKIP LOCKED; an empty batch returns 0
EmbedDocsSelect(w) ==
    /\ pc[w] = "em_select"
    /\ LET batch == FirstN(EmbedDocsCandidates(w), DocBatchLimit)
       IN  IF batch = <<>>
           THEN /\ pc' = [pc EXCEPT ![w] = "idle"]
                /\ UNCHANGED <<doc_ids, row_lock>>
           ELSE /\ pc' = [pc EXCEPT ![w] = "em_embed"]
                /\ doc_ids' = [doc_ids EXCEPT ![w] = batch]
                /\ row_lock' = [d \in Docs |-> IF d \in Range(batch) THEN w
                                               ELSE row_lock[d]]
    /\ UNCHANGED <<doc_status, raw_text_len, doc_summary_ok, doc_embedding,
                   pos, result, tx_status, llm_callers, embed_writers, faults>>
    /\ UNCHANGED otherThanDoc

\* for future in as_completed(futures): the pool's results arrive in any order;
\* UPDATE raw_files SET doc_embedding, doc_status = 'embedded' or
\* SET doc_status = 'embed_error', inside the transaction that holds the locks
EmbedDocsResult(w, d) ==
    /\ pc[w] = "em_embed"
    /\ d \in Range(doc_ids[w])
    /\ tx_status[w][d] = "none"
    /\ \E embedded \in BOOLEAN :
         tx_status' = [tx_status EXCEPT ![w][d] =
                          IF embedded THEN "embedded" ELSE "embed_error"]
    /\ UNCHANGED <<doc_status, raw_text_len, doc_summary_ok, doc_embedding, row_lock,
                   pc, doc_ids, pos, result, llm_callers, embed_writers, faults>>
    /\ UNCHANGED otherThanDoc

\* db.commit() after the pool has drained; finally: db.close()
EmbedDocsCommit(w) ==
    /\ pc[w] = "em_embed"
    /\ \A d \in Range(doc_ids[w]) : tx_status[w][d] # "none"
    /\ doc_status' = [d \in Docs |-> IF tx_status[w][d] # "none" THEN tx_status[w][d]
                                     ELSE doc_status[d]]
    /\ doc_embedding' = [d \in Docs |-> IF tx_status[w][d] = "embedded" THEN TRUE
                                        ELSE doc_embedding[d]]
    /\ embed_writers' = [d \in Docs |-> IF tx_status[w][d] # "none"
                                        THEN embed_writers[d] \cup {w}
                                        ELSE embed_writers[d]]
    /\ row_lock' = ReleaseLocks(w)
    /\ tx_status' = [tx_status EXCEPT ![w] = NoTx]
    /\ doc_ids' = [doc_ids EXCEPT ![w] = <<>>]
    /\ pc' = [pc EXCEPT ![w] = "idle"]
    /\ UNCHANGED <<raw_text_len, doc_summary_ok, pos, result, llm_callers, faults>>
    /\ UNCHANGED otherThanDoc

\* except Exception: db.rollback(); return 0
EmbedDocsAbort(w) ==
    /\ faults < MaxFaults
    /\ faults' = faults + 1
    /\ pc[w] = "em_embed"
    /\ row_lock' = ReleaseLocks(w)
    /\ tx_status' = [tx_status EXCEPT ![w] = NoTx]
    /\ doc_ids' = [doc_ids EXCEPT ![w] = <<>>]
    /\ pc' = [pc EXCEPT ![w] = "idle"]
    /\ UNCHANGED <<doc_status, raw_text_len, doc_summary_ok, doc_embedding,
                   pos, result, llm_callers, embed_writers>>
    /\ UNCHANGED otherThanDoc

\* ------------------------------------------------------ process death
\* The worker process dies inside a batch function: the server ends its
\* connection, which rolls the open transaction back and frees its locks.
Crash(w) ==
    /\ faults < MaxFaults
    /\ faults' = faults + 1
    /\ pc[w] \notin {"idle", "down"}
    /\ row_lock' = ReleaseLocks(w)
    /\ tx_status' = [tx_status EXCEPT ![w] = NoTx]
    /\ doc_ids' = [doc_ids EXCEPT ![w] = <<>>]
    /\ pos' = [pos EXCEPT ![w] = 0]
    /\ result' = [result EXCEPT ![w] = "none"]
    /\ pc' = [pc EXCEPT ![w] = "down"]
    /\ UNCHANGED <<doc_status, raw_text_len, doc_summary_ok, doc_embedding,
                   llm_callers, embed_writers>>
    /\ UNCHANGED otherThanDoc

\* the process is started again: run_pipeline() from the top
Restart(w) ==
    /\ pc[w] = "down"
    /\ pc' = [pc EXCEPT ![w] = "idle"]
    /\ UNCHANGED <<doc_status, raw_text_len, doc_summary_ok, doc_embedding, row_lock,
                   doc_ids, pos, result, tx_status, llm_callers, embed_writers, faults>>
    /\ UNCHANGED otherThanDoc

DocNext ==
    \E w \in Workers :
        \/ EnrichDocsBegin(w)
        \/ EnrichDocsSelect(w)
        \/ EnrichDocsMark(w)
        \/ EnrichDocsCall(w)
        \/ EnrichDocsStore(w)
        \/ EnrichDocsDone(w)
        \/ EnrichDocsAbort(w)
        \/ EmbedDocsBegin(w)
        \/ EmbedDocsSelect(w)
        \/ \E d \in Docs : EmbedDocsResult(w, d)
        \/ EmbedDocsCommit(w)
        \/ EmbedDocsAbort(w)
        \/ Crash(w)
        \/ Restart(w)

DocSpec == Init /\ [][DocNext]_vars

\* The worker loop keeps running: a live worker takes its next step, a dead one
\* is started again.  Crashes and database errors are not owed to anyone.
WorkerStep(w) ==
    \/ EnrichDocsBegin(w)
    \/ EnrichDocsSelect(w)
    \/ EnrichDocsMark(w)
    \/ EnrichDocsCall(w)
    \/ EnrichDocsStore(w)
    \/ EnrichDocsDone(w)
    \/ EmbedDocsBegin(w)
    \/ EmbedDocsSelect(w)
    \/ \E d \in Docs : EmbedDocsResult(w, d)
    \/ EmbedDocsCommit(w)
    \/ Restart(w)

FairDocSpec == DocSpec /\ \A w \in Workers : WF_vars(WorkerStep(w))

\* The worker loop runs the document-enrichment phase in every cycle: a worker
\* that is idle again and again starts another enrichment batch.
FairEnrichDocSpec == FairDocSpec /\ \A w \in Workers : SF_vars(EnrichDocsBegin(w))

\* a pending document that the batch query selects (raw_text longer than
\* MinRawTextLen) eventually leaves pending
SelectablePendingLeaves ==
    \A d \in Docs :
        (doc_status[d] = "pending" /\ raw_text_len[d] > MinRawTextLen)
            ~> (doc_status[d] # "pending")

\* ------------------------------------------------ chunk tier: the store
\* The session flushes an UPDATE of the attributes whose value differs from
\* the one the object was loaded with; an attribute set to the value it was
\* loaded with is not written, and the row keeps what it holds.
Flush(loadedValue, newValue, rowValue) ==
    IF newValue = loadedValue THEN rowValue ELSE newValue

\* .limit(n).all() with no ORDER BY: any rows of the result, as many as the
\* limit allows
Batches(S, n) == {B \in SUBSET S : Cardinality(B) = Min(n, Cardinality(S))}

\* the filter of the batch query of enrich_entries.main
EnrichCandidates ==
    {c \in Chunks : status[c] = "pending" /\ retry_count[c] < MAX_RETRIES}

\* the batch query of embed_entries.main without its status filter
EmbedCandidatesAnyStatus ==
    {c \in Chunks : ~embedding[c]}

\* the filter of the batch query of embed_entries.main
EmbedCandidates ==
    {c \in Chunks : ~embedding[c] /\ status[c] = "enriched"}

\* the pool threads of worker w that hold an Entry
Threads(w) == {c \in Chunks : loaded[w][c] # NoEntry}

\* ------------------------------------------- enrich_entries.main (one worker)
\* entries = db.query(Entry).filter(...).limit(ENRICH_BATCH_SIZE).all();
\* entry_ids = [e.id for e in entries].  With no pending entry main returns.
EnrichMain(w) ==
    /\ cpc[w] = "idle"
    /\ EnrichCandidates # {}
    /\ \E B \in Batches(EnrichCandidates, EnrichBatchLimit) :
         entry_ids' = [entry_ids EXCEPT ![w] = B]
    /\ cpc' = [cpc EXCEPT ![w] = "enrich"]
    /\ UNCHANGED <<metadata, status, retry_count, embedding, loaded, entries, emb_result,
                   processed, total_needing_embed, resets, failed_attempts>>
    /\ UNCHANGED otherThanChunk

\* a pool thread runs enrich_entry_worker(entry_id): its own session,
\* entry = db.query(Entry).filter(Entry.id == entry_id).first()
EnrichEntryLoad(w, c) ==
    /\ cpc[w] = "enrich"
    /\ c \in entry_ids[w]
    /\ Cardinality(Threads(w)) < ENRICH_WORKERS
    /\ entry_ids' = [entry_ids EXCEPT ![w] = @ \ {c}]
    /\ loaded' = [loaded EXCEPT ![w][c] =
                     [status |-> status[c], retry_count |-> retry_count[c],
                      embedding |-> embedding[c]]]
    /\ UNCHANGED <<metadata, status, retry_count, embedding, cpc, entries, emb_result,
                   processed, total_needing_embed, resets, failed_attempts>>
    /\ UNCHANGED otherThanChunk

\* enrich_entry, `if not metadata`: entry.retry_count = (entry.retry_count or 0) + 1;
\* if entry.retry_count >= MAX_RETRIES: entry.status = 'error'; db.commit()
EnrichEntryFailed(w, c) ==
    /\ loaded[w][c] # NoEntry
    /\ LET entry == loaded[w][c]
           count == entry.retry_count + 1
       IN  /\ retry_count' = [retry_count EXCEPT ![c] = count]
           /\ status' = [status EXCEPT ![c] =
                            IF count >= MAX_RETRIES
                            THEN Flush(entry.status, "error", @)
                            ELSE @]
    /\ failed_attempts' = [failed_attempts EXCEPT ![c] = Min(@ + 1, MAX_RETRIES + 1)]
    /\ loaded' = [loaded EXCEPT ![w][c] = NoEntry]
    /\ UNCHANGED <<metadata, embedding, cpc, entry_ids, entries, emb_result, processed,
                   total_needing_embed, resets>>
    /\ UNCHANGED otherThanChunk

\* enrich_entry, metadata returned: entry.title, author, category, summary,
\* tags = ...; entry.status = 'enriched'; entry.embedding = None; db.commit()
EnrichEntryEnriched(w, c) ==
    /\ loaded[w][c] # NoEntry
    /\ LET entry == loaded[w][c]
       IN  /\ status' = [status EXCEPT ![c] = Flush(entry.status, "enriched", @)]
           /\ embedding' = [embedding EXCEPT ![c] = Flush(entry.embedding, FALSE, @)]
    /\ metadata' = [metadata EXCEPT ![c] = TRUE]
    /\ loaded' = [loaded EXCEPT ![w][c] = NoEntry]
    /\ UNCHANGED <<retry_count, cpc, entry_ids, entries, emb_result, processed,
                   total_needing_embed, resets, failed_attempts>>
    /\ UNCHANGED otherThanChunk

\* enrich_entry, metadata returned but saving raised: db.rollback()
EnrichEntrySaveError(w, c) ==
    /\ loaded[w][c] # NoEntry
    /\ loaded' = [loaded EXCEPT ![w][c] = NoEntry]
    /\ UNCHANGED <<metadata, status, retry_count, embedding, cpc, entry_ids, entries,
                   emb_result, processed, total_needing_embed, resets,
                   failed_attempts>>
    /\ UNCHANGED otherThanChunk

\* every future has completed: main returns
EnrichMainDone(w) ==
    /\ cpc[w] = "enrich"
    /\ entry_ids[w] = {}
    /\ Threads(w) = {}
    /\ cpc' = [cpc EXCEPT ![w] = "idle"]
    /\ UNCHANGED <<metadata, status, retry_count, embedding, entry_ids, loaded, entries,
                   emb_result, processed, total_needing_embed, resets,
                   failed_attempts>>
    /\ UNCHANGED otherThanChunk

\* -------------------------------------------- embed_entries.main (one worker)
\* total_needing_embed = count of enriched entries with no embedding;
\* 0 returns at once
EmbedMain(w) ==
    /\ cpc[w] = "idle"
    /\ EmbedCandidates # {}
    /\ total_needing_embed' = [total_needing_embed EXCEPT ![w] = Cardinality(EmbedCandidates)]
    /\ processed' = [processed EXCEPT ![w] = 0]
    /\ cpc' = [cpc EXCEPT ![w] = "embed_loop"]
    /\ UNCHANGED <<metadata, status, retry_count, embedding, entry_ids, loaded, entries,
                   emb_result, resets, failed_attempts>>
    /\ UNCHANGED otherThanChunk

\* while processed < total_needing_embed: entries = ....limit(BATCH_SIZE).all();
\* if not entries: break
EmbedFetch(w) ==
    /\ cpc[w] = "embed_loop"
    /\ processed[w] < total_needing_embed[w]
    /\ IF EmbedCandidates = {}
       THEN /\ cpc' = [cpc EXCEPT ![w] = "idle"]
            /\ UNCHANGED entries
       ELSE /\ \E B \in Batches(EmbedCandidates, EmbedBatchLimit) :
                 entries' = [entries EXCEPT ![w] = B]
            /\ cpc' = [cpc EXCEPT ![w] = "embed"]
    /\ UNCHANGED <<metadata, status, retry_count, embedding, entry_ids, loaded, emb_result,
                   processed, total_needing_embed, resets, failed_attempts>>
    /\ UNCHANGED otherThanChunk

\* embed_batch: a pool thread's embed_single(entry_id, text) returns (the
\* futures complete in any order) an embedding or None
EmbedSingle(w, c) ==
    /\ cpc[w] = "embed"
    /\ c \in entries[w]
    /\ emb_result[w][c] = "none"
    /\ \E r \in {"ok", "failed"} : emb_result' = [emb_result EXCEPT ![w][c] = r]
    /\ UNCHANGED <<metadata, status, retry_count, embedding, cpc, entry_ids, loaded, entries,
                   processed, total_needing_embed, resets, failed_attempts>>
    /\ UNCHANGED otherThanChunk

\* embed_batch: entry.embedding = embedding for each success; db.commit();
\* back in main: processed += len(entries)
EmbedBatchCommit(w) ==
    /\ cpc[w] = "embed"
    /\ \A c \in entries[w] : emb_result[w][c] # "none"
    /\ embedding' = [c \in Chunks |-> IF c \in entries[w] /\ emb_result[w][c] = "ok"
                                      THEN TRUE ELSE embedding[c]]
    /\ processed' = [processed EXCEPT ![w] = @ + Cardinality(entries[w])]
    /\ entries' = [entries EXCEPT ![w] = {}]
    /\ emb_result' = [emb_result EXCEPT ![w] = [c \in Chunks |-> "none"]]
    /\ cpc' = [cpc EXCEPT ![w] = "embed_loop"]
    /\ UNCHANGED <<metadata, status, retry_count, entry_ids, loaded, total_needing_embed,
                   resets, failed_attempts>>
    /\ UNCHANGED otherThanChunk

\* the while condition fails: main returns
EmbedMainDone(w) ==
    /\ cpc[w] = "embed_loop"
    /\ processed[w] >= total_needing_embed[w]
    /\ cpc' = [cpc EXCEPT ![w] = "idle"]
    /\ processed' = [processed EXCEPT ![w] = 0]
    /\ total_needing_embed' = [total_needing_embed EXCEPT ![w] = 0]
    /\ UNCHANGED <<metadata, status, retry_count, embedding, entry_ids, loaded, entries,
                   emb_result, resets, failed_attempts>>
    /\ UNCHANGED otherThanChunk

\* ------------------------------------------------ the reset endpoints
\* POST /entries/{entry_id}/retry
retry_entry(c) ==
    /\ resets < MaxResets
    /\ resets' = resets + 1
    /\ status' = [status EXCEPT ![c] = "pending"]
    /\ retry_count' = [retry_count EXCEPT ![c] = 0]
    /\ failed_attempts' = [failed_attempts EXCEPT ![c] = 0]
    /\ UNCHANGED <<metadata, embedding, cpc, entry_ids, loaded, entries, emb_result,
                   processed, total_needing_embed>>
    /\ UNCHANGED otherThanChunk

\* POST /entries/retry-all-failed: one UPDATE over status = 'error' OR retry_count >= 3
retry_all_failed ==
    /\ resets < MaxResets
    /\ resets' = resets + 1
    /\ LET failed == {c \in Chunks : status[c] = "error" \/ retry_count[c] >= MAX_RETRIES}
       IN  /\ status' = [c \in Chunks |-> IF c \in failed THEN "pending" ELSE status[c]]
           /\ retry_count' = [c \in Chunks |-> IF c \in failed THEN 0 ELSE retry_count[c]]
           /\ failed_attempts' = [c \in Chunks |-> IF c \in failed THEN 0
                                                   ELSE failed_attempts[c]]
    /\ UNCHANGED <<metadata, embedding, cpc, entry_ids, loaded, entries, emb_result,
                   processed, total_needing_embed>>
    /\ UNCHANGED otherThanChunk

\* POST /entries/{entry_id}/re-enrich
re_enrich_entry(c) ==
    /\ resets < MaxResets
    /\ resets' = resets + 1
    /\ status' = [status EXCEPT ![c] = "pending"]
    /\ retry_count' = [retry_count EXCEPT ![c] = 0]
    /\ embedding' = [embedding EXCEPT ![c] = FALSE]
    /\ metadata' = [metadata EXCEPT ![c] = FALSE]
    /\ failed_attempts' = [failed_attempts EXCEPT ![c] = 0]
    /\ UNCHANGED <<cpc, entry_ids, loaded, entries, emb_result, processed,
                   total_needing_embed>>
    /\ UNCHANGED otherThanChunk

ChunkNext ==
    \/ \E w \in Workers :
         \/ EnrichMain(w)
         \/ \E c \in Chunks : EnrichEntryLoad(w, c)
         \/ \E c \in Chunks : EnrichEntryFailed(w, c)
         \/ \E c \in Chunks : EnrichEntryEnriched(w, c)
         \/ \E c \in Chunks : EnrichEntrySaveError(w, c)
         \/ EnrichMainDone(w)
         \/ EmbedMain(w)
         \/ EmbedFetch(w)
         \/ \E c \in Chunks : EmbedSingle(w, c)
         \/ EmbedBatchCommit(w)
         \/ EmbedMainDone(w)
    \/ \E c \in Chunks : retry_entry(c)
    \/ retry_all_failed
    \/ \E c \in Chunks : re_enrich_entry(c)

ChunkSpec == InitChunkTier /\ [][ChunkNext]_vars

\* ------------------------------------------ segment_entries.main (one worker)
\* len(text) of a paragraph
ParaLen(p) == ParaLens[p.norm]

\* In the window text[current_pos + max_length // 2 : end_pos] of a large
\* paragraph of the model, the last sentence end lies this many characters in
\* (matches[-1].end()).
LastMatchEnd == 1500

\* split_large_segment, the loop: the lengths of the chunks cut from
\* text[current_pos:], each up to the last sentence end before
\* current_pos + max_length
RECURSIVE SplitFrom(_, _)
SplitFrom(current_pos, len) ==
    IF current_pos >= len THEN <<>>
    ELSE LET end_pos == Min(current_pos + MAX_ENTRY_LENGTH, len)
             search_start == current_pos + MAX_ENTRY_LENGTH \div 2
             best_break == IF end_pos < len THEN search_start + LastMatchEnd
                           ELSE end_pos
         IN  <<best_break - current_pos>> \o SplitFrom(best_break, len)

\* split_large_segment(text): the lengths of the chunks of a text of len chars
split_large_segment(len) ==
    IF len <= MAX_ENTRY_LENGTH THEN <<len>> ELSE SplitFrom(0, len)

\* heuristic_split, first loop: the paragraphs between the separators that are
\* at least MIN_ENTRY_LENGTH long
raw_segments(text) == SelectSeq(text, LAMBDA p : ParaLen(p) >= MIN_ENTRY_LENGTH)

\* heuristic_split, second loop, for raw_segments[i]: a segment longer than
\* MAX_ENTRY_LENGTH is split into sub-chunks; any other segment but the first is
\* prefixed f"[...] {overlap}\n\n" with the last OVERLAP_LENGTH characters of
\* the segment before it.  A segment is its text (prefix paragraph, body, number
\* of the sub-chunk) and the length of that text.
SegmentsOfRaw(raw, i) ==
    LET seg == raw[i]
        sub_chunks == split_large_segment(ParaLen(seg))
    IN  IF ParaLen(seg) > MAX_ENTRY_LENGTH
        THEN [j \in 1..Len(sub_chunks) |->
                 [prefix |-> NoPara, body |-> <<seg>>, part |-> j,
                  len |-> sub_chunks[j]]]
        ELSE IF OVERLAP_LENGTH > 0 /\ i > 1
        THEN <<[prefix |-> raw[i - 1], body |-> <<seg>>, part |-> 0,
                len |-> 6 + Min(ParaLen(raw[i - 1]), OVERLAP_LENGTH) + 2
                          + ParaLen(seg)]>>
        ELSE <<[prefix |-> NoPara, body |-> <<seg>>, part |-> 0,
                len |-> ParaLen(seg)]>>

RECURSIVE SegmentsFrom(_, _)
SegmentsFrom(raw, i) ==
    IF i > Len(raw) THEN <<>>
    ELSE SegmentsOfRaw(raw, i) \o SegmentsFrom(raw, i + 1)

\* heuristic_split(text) for a text that is neither HTML nor markdown
heuristic_split(text) == SegmentsFrom(raw_segments(text), 1)

\* len(file.raw_text.strip()): the paragraphs and the blank lines between them
RECURSIVE TextLen(_)
TextLen(text) ==
    IF text = <<>> THEN 0
    ELSE ParaLen(Head(text)) + (IF Len(text) > 1 THEN 2 ELSE 0) + TextLen(Tail(text))

\* segment_file: `segments = heuristic_split(...)`, and `if not segments:` the
\* whole text as one segment if it is not empty
SegmentsOf(f) ==
    LET segs == heuristic_split(raw_text[f])
    IN  IF segs # <<>> THEN segs
        ELSE IF TextLen(raw_text[f]) > 0
        THEN <<[prefix |-> NoPara, body |-> raw_text[f], part |-> 0,
                len |-> TextLen(raw_text[f])]>>
        ELSE <<>>

\* compute_content_hash(seg['text']): the digest of the lower-cased text with
\* its whitespace collapsed; the digest stands for the normalised text
compute_content_hash(seg) ==
    <<seg.prefix.norm, [i \in 1..Len(seg.body) |-> seg.body[i].norm], seg.part>>

\* files = db.query(RawFile).filter(RawFile.status == 'ok').all()
SegmentMain(w) ==
    /\ spc[w] = "idle"
    /\ files' = [files EXCEPT ![w] = Files]
    /\ spc' = [spc EXCEPT ![w] = "files"]
    /\ seg_run' = [seg_run EXCEPT ![w] = IF @ = "settled" THEN "second" ELSE "first"]
    /\ UNCHANGED <<raw_text, has_links, link_rows, entry_rows, file, seg_pos,
                   new_entries, made_entries, made_links>>
    /\ UNCHANGED otherThanSeg

\* the committed entries rows of file f, as a query sees them
EntriesOf(f) == {r \in entry_rows : r.file_id = f}

\* segment_file up to its loop: `if file.entries:` loads the file's entries and
\* a file that has some is skipped; else the links of the text are saved
\* (save_links_for_file deletes the file's rows, inserts the links and commits)
\* and heuristic_split gives the segments to go through; a file with no text
\* is left
SegmentFileCheck(w, f) ==
    /\ spc[w] = "files"
    /\ f \in files[w]
    /\ files' = [files EXCEPT ![w] = @ \ {f}]
    /\ IF EntriesOf(f) # {}
       THEN UNCHANGED <<spc, file, seg_pos, new_entries, link_rows, made_links,
                        seg_run>>
       ELSE /\ IF has_links[f]
               THEN /\ link_rows' = [link_rows EXCEPT ![f] = TRUE]
                    /\ made_links' = [made_links EXCEPT ![w] = TRUE]
                    /\ seg_run' = [v \in Workers |-> IF v = w THEN seg_run[v] ELSE "no"]
               ELSE UNCHANGED <<link_rows, made_links, seg_run>>
            /\ IF SegmentsOf(f) = <<>>
               THEN UNCHANGED <<spc, file, seg_pos, new_entries>>
               ELSE /\ spc' = [spc EXCEPT ![w] = "segments"]
                    /\ file' = [file EXCEPT ![w] = f]
                    /\ seg_pos' = [seg_pos EXCEPT ![w] = 1]
                    /\ new_entries' = [new_entries EXCEPT ![w] = {}]
    /\ UNCHANGED <<raw_text, has_links, entry_rows, made_entries>>
    /\ UNCHANGED otherThanSeg

\* existing = db.query(Entry).filter(Entry.content_hash == content_hash).first():
\* the committed rows only (new_entries is added to the session after the loop)
Existing(content_hash) == \E r \in entry_rows : r.content_hash = content_hash

\* one turn of `for i, seg in enumerate(segments)`: a segment whose hash is
\* stored is skipped, else Entry(file_id, entry_index = i, entry_text,
\* content_hash, ...)
SegmentFileSegment(w) ==
    /\ spc[w] = "segments"
    /\ seg_pos[w] <= Len(SegmentsOf(file[w]))
    /\ LET seg == SegmentsOf(file[w])[seg_pos[w]]
           content_hash == compute_content_hash(seg)
       IN  new_entries' = [new_entries EXCEPT ![w] =
                              IF Existing(content_hash) THEN @
                              ELSE @ \cup {[file_id |-> file[w],
                                            entry_index |-> seg_pos[w] - 1,
                                            entry_text |-> seg,
                                            content_hash |-> content_hash,
                                            by |-> w]}]
    /\ seg_pos' = [seg_pos EXCEPT ![w] = @ + 1]
    /\ UNCHANGED <<raw_text, has_links, link_rows, entry_rows, spc, files, file,
                   made_entries, made_links, seg_run>>
    /\ UNCHANGED otherThanSeg

\* if new_entries: db.add_all(new_entries); db.commit()
SegmentFileCommit(w) ==
    /\ spc[w] = "segments"
    /\ seg_pos[w] > Len(SegmentsOf(file[w]))
    /\ entry_rows' = entry_rows \cup new_entries[w]
    /\ IF new_entries[w] # {}
       THEN /\ made_entries' = [made_entries EXCEPT ![w] = TRUE]
            /\ seg_run' = [v \in Workers |-> IF v = w THEN seg_run[v] ELSE "no"]
       ELSE UNCHANGED <<made_entries, seg_run>>
    /\ new_entries' = [new_entries EXCEPT ![w] = {}]
    /\ file' = [file EXCEPT ![w] = 0]
    /\ seg_pos' = [seg_pos EXCEPT ![w] = 0]
    /\ spc' = [spc EXCEPT ![w] = "files"]
    /\ UNCHANGED <<raw_text, has_links, link_rows, files, made_links>>
    /\ UNCHANGED otherThanSeg

\* the loop over files is over: main returns
SegmentMainDone(w) ==
    /\ spc[w] = "files"
    /\ files[w] = {}
    /\ spc' = [spc EXCEPT ![w] = "idle"]
    /\ seg_run' = [seg_run EXCEPT ![w] =
                      IF @ \in {"first", "second"} THEN "settled" ELSE "no"]
    /\ made_entries' = [made_entries EXCEPT ![w] = FALSE]
    /\ made_links' = [made_links EXCEPT ![w] = FALSE]
    /\ UNCHANGED <<raw_text, has_links, link_rows, entry_rows, files, file, seg_pos,
                   new_entries>>
    /\ UNCHANGED otherThanSeg

SegNext ==
    \E w \in Workers :
        \/ SegmentMain(w)
        \/ \E f \in Files : SegmentFileCheck(w, f)
        \/ SegmentFileSegment(w)
        \/ SegmentFileCommit(w)
        \/ SegmentMainDone(w)

SegSpec == InitSegStage /\ [][SegNext]_vars

\* a deployment with one worker process: the stage is run by worker 1 alone
SoloSegNext ==
    \/ SegmentMain(1)
    \/ \E f \in Files : SegmentFileCheck(1, f)
    \/ SegmentFileSegment(1)
    \/ SegmentFileCommit(1)
    \/ SegmentMainDone(1)

SoloSegSpec == InitSplitStage /\ [][SoloSegNext]_vars

\* ------------------------------------------- ingest_files.main (one worker)
\* stat.st_size of a file: files with different bytes can have one size
SizeOf(bytes) == (bytes + 1) \div 2

\* db.query(RawFile).filter(RawFile.path == path_str): the rows with this path
\* (the column is not unique)
RowsByPath(p) == {i \in RowIds : raw_files[i].path = p}

\* db.query(RawFile).filter(RawFile.sha256 == sha256): the rows with this digest
RowsBySha(sha256) == {i \in RowIds : raw_files[i].sha256 = sha256}

\* .first() of a query with no ORDER BY: any row of the result, None (0) if empty
First(rows) == IF rows = {} THEN {0} ELSE rows

\* path_cache[path] = {'mtime': mtime, 'size': size, 'status': status}
CacheOf(row) == [mtime |-> row.mtime, size |-> row.size_bytes, status |-> row.status]

\* The source tree changes: a file is rewritten or touched.
FsChange(p) ==
    /\ fs_changes < MaxFsChanges
    /\ fs_changes' = fs_changes + 1
    /\ \E bytes \in Contents, mtime \in Mtimes :
         /\ [bytes |-> bytes, mtime |-> mtime] # fs[p]
         /\ fs' = [fs EXCEPT ![p] = [bytes |-> bytes, mtime |-> mtime]]
    /\ unchanged_pass' = [w \in Workers |-> "no"]
    /\ UNCHANGED <<raw_files, ipc, path_cache, scan, pending_write, new_files,
                   updated_files, skipped_files, errors, hashed, extracted>>
    /\ UNCHANGED otherThanIngest

\* main: the path cache is built from every row of raw_files (a later row of
\* the result overwrites an earlier one with the same path), the counters are
\* zeroed and the scan of the source folders begins
IngestMain(w) ==
    /\ ipc[w] = "idle"
    /\ \E pick \in [Paths -> RowIds \cup {0}] :
         /\ \A p \in Paths : pick[p] \in First(RowsByPath(p))
         /\ path_cache' = [path_cache EXCEPT ![w] =
                              [p \in Paths |-> IF pick[p] = 0 THEN NoCache
                                               ELSE CacheOf(raw_files[pick[p]])]]
    /\ scan' = [scan EXCEPT ![w] = Paths]
    /\ new_files' = [new_files EXCEPT ![w] = 0]
    /\ updated_files' = [updated_files EXCEPT ![w] = 0]
    /\ skipped_files' = [skipped_files EXCEPT ![w] = 0]
    /\ errors' = [errors EXCEPT ![w] = 0]
    /\ hashed' = [hashed EXCEPT ![w] = FALSE]
    /\ extracted' = [extracted EXCEPT ![w] = FALSE]
    /\ unchanged_pass' = [unchanged_pass EXCEPT ![w] =
                             IF @ = "settled" THEN "second" ELSE "first"]
    /\ ipc' = [ipc EXCEPT ![w] = "scan"]
    /\ UNCHANGED <<fs, raw_files, pending_write, fs_changes>>
    /\ UNCHANGED otherThanIngest

\* ingest_file returns "skipped"; main: skipped_files += 1
Skipped(w, p, wasHashed) ==
    /\ skipped_files' = [skipped_files EXCEPT ![w] = @ + 1]
    /\ hashed' = [hashed EXCEPT ![w] = wasHashed]
    /\ extracted' = [extracted EXCEPT ![w] = FALSE]
    /\ UNCHANGED <<ipc, pending_write>>

\* ingest_file has changed or added a row in its session and reaches db.commit()
ToCommit(w, p, id, row, op, wasExtracted) ==
    /\ pending_write' = [pending_write EXCEPT ![w] =
                            [id |-> id, path |-> p,
                             loaded |-> IF id = 0 THEN NoRow ELSE raw_files[id],
                             row |-> row, result |-> op]]
    /\ hashed' = [hashed EXCEPT ![w] = TRUE]
    /\ extracted' = [extracted EXCEPT ![w] = wasExtracted]
    /\ ipc' = [ipc EXCEPT ![w] = "write"]
    /\ UNCHANGED skipped_files

\* extract_text: status = "extract_failed" if no text came out, else "ok"
ExtractStatus(text) == IF text THEN "ok" ELSE "extract_failed"

\* a fast path that skips whatever status the cached record has
CacheHitAnyStatus(cached, mtime, size_bytes) ==
    /\ cached # NoCache
    /\ cached.mtime = mtime /\ cached.size = size_bytes

\* the fast path: the path is in path_cache with this mtime and size, and the
\* cached status is not extract_failed
CacheHit(cached, mtime, size_bytes) ==
    /\ cached # NoCache
    /\ cached.mtime = mtime /\ cached.size = size_bytes
    /\ cached.status # "extract_failed"

\* ingest_file(db, file_path, path_cache) up to its return or its db.commit(),
\* for the next file root.rglob yields (the directory order, the same on every pass)
IngestFile(w, p) ==
    /\ ipc[w] = "scan"
    /\ p \in scan[w]
    /\ \A q \in scan[w] : p <= q
    /\ scan' = [scan EXCEPT ![w] = @ \ {p}]
    /\ LET mtime == fs[p].mtime
           size_bytes == SizeOf(fs[p].bytes)
           cached == path_cache[w][p]
       IN  IF CacheHit(cached, mtime, size_bytes)
           THEN Skipped(w, p, FALSE)
           ELSE \E existing_by_path \in First(RowsByPath(p)) :
                  IF /\ existing_by_path # 0
                     /\ raw_files[existing_by_path].mtime = mtime
                     /\ raw_files[existing_by_path].size_bytes = size_bytes
                     /\ raw_files[existing_by_path].status # "extract_failed"
                  THEN Skipped(w, p, FALSE)
                  ELSE
                    LET sha256 == fs[p].bytes
                    IN  \E existing_by_sha \in First(RowsBySha(sha256)) :
                          LET by_sha == raw_files[existing_by_sha]
                              by_path == raw_files[existing_by_path]
                          IN  IF existing_by_sha # 0
                              THEN IF /\ by_sha.path = p /\ by_sha.mtime = mtime
                                      /\ by_sha.status # "extract_failed"
                                   THEN Skipped(w, p, TRUE)
                                   ELSE IF by_sha.status = "extract_failed"
                                   THEN \E text \in BOOLEAN :
                                          ToCommit(w, p, existing_by_sha,
                                                   [by_sha EXCEPT !.status = ExtractStatus(text),
                                                                  !.path = p,
                                                                  !.size_bytes = size_bytes,
                                                                  !.mtime = mtime],
                                                   "updated", TRUE)
                                   ELSE ToCommit(w, p, existing_by_sha,
                                                 [by_sha EXCEPT !.path = p,
                                                                !.size_bytes = size_bytes,
                                                                !.mtime = mtime],
                                                 "updated", FALSE)
                              ELSE IF existing_by_path # 0
                              THEN \E text \in BOOLEAN :
                                     ToCommit(w, p, existing_by_path,
                                              [by_path EXCEPT !.status = ExtractStatus(text),
                                                              !.sha256 = sha256,
                                                              !.size_bytes = size_bytes,
                                                              !.mtime = mtime],
                                              "updated", TRUE)
                              ELSE \E text \in BOOLEAN :
                                     ToCommit(w, p, 0,
                                              [path |-> p, mtime |-> mtime,
                                               size_bytes |-> size_bytes,
                                               sha256 |-> sha256,
                                               status |-> ExtractStatus(text)],
                                              "new", TRUE)
    /\ UNCHANGED <<fs, raw_files, path_cache, new_files, updated_files, errors,
                   fs_changes, unchanged_pass>>
    /\ UNCHANGED otherThanIngest

\* the row an UPDATE of the changed attributes leaves, given what the row holds now
Flushed(loadedRow, newRow, row) ==
    [a \in DOMAIN row |-> Flush(loadedRow[a], newRow[a], row[a])]

\* a store with no unique index on raw_files.sha256
NoUniqueIndex(id, sha256) == FALSE

\* sha256 = Column(Text, unique=True): another row holds this digest
Duplicate(id, sha256) == \E j \in RowIds \ {id} : raw_files[j].sha256 = sha256

\* db.commit(): the INSERT or the UPDATE of the changed attributes is sent.  The
\* unique index on sha256 refuses a second row with one digest: IntegrityError,
\* `except Exception: db.rollback(); return "error"`.  Back in main the counter
\* of the result is incremented and path_cache[path] = {'mtime', 'size'}.
IngestCommit(w) ==
    /\ ipc[w] = "write"
    /\ LET pw == pending_write[w]
           free == {i \in RowIds : raw_files[i] = NoRow}
           row == IF pw.id = 0 THEN pw.row
                  ELSE Flushed(pw.loaded, pw.row, raw_files[pw.id])
       IN  IF Duplicate(pw.id, row.sha256)
           THEN /\ errors' = [errors EXCEPT ![w] = @ + 1]
                /\ UNCHANGED <<raw_files, path_cache, new_files, updated_files,
                               unchanged_pass>>
           ELSE /\ raw_files' = [raw_files EXCEPT
                                   ![IF pw.id = 0 THEN CHOOSE i \in free :
                                                         \A j \in free : i <= j
                                     ELSE pw.id] = row]
                /\ new_files' = [new_files EXCEPT ![w] =
                                    IF pw.result = "new" THEN @ + 1 ELSE @]
                /\ updated_files' = [updated_files EXCEPT ![w] =
                                        IF pw.result = "updated" THEN @ + 1 ELSE @]
                /\ path_cache' = [path_cache EXCEPT ![w][pw.path] =
                                     [mtime |-> fs[pw.path].mtime,
                                      size |-> SizeOf(fs[pw.path].bytes),
                                      status |-> "none"]]
                /\ unchanged_pass' = [v \in Workers |->
                                         IF v = w THEN unchanged_pass[v] ELSE "no"]
                /\ UNCHANGED errors
    /\ pending_write' = [pending_write EXCEPT ![w] = NoWrite]
    /\ ipc' = [ipc EXCEPT ![w] = "scan"]
    /\ UNCHANGED <<fs, scan, skipped_files, fs_changes, hashed, extracted>>
    /\ UNCHANGED otherThanIngest

\* the scan is over: the counts are reported, main returns
IngestMainDone(w) ==
    /\ ipc[w] = "scan"
    /\ scan[w] = {}
    /\ ipc' = [ipc EXCEPT ![w] = "idle"]
    /\ unchanged_pass' = [unchanged_pass EXCEPT ![w] =
                             IF @ \in {"first", "second"} THEN "settled" ELSE "no"]
    /\ UNCHANGED <<fs, raw_files, path_cache, scan, pending_write, new_files,
                   updated_files, skipped_files, errors, fs_changes, hashed, extracted>>
    /\ UNCHANGED otherThanIngest

\* The ingestion stage is explored over source trees whose files have the same
\* bytes and over trees whose files differ.
InitIngestStage ==
    /\ DocInit
    /\ ChunkInit
    /\ SegInit
    /\ IngestInit
    /\ SearchInit
    /\ LoopInit
    /\ call_succeeds = [c \in EmbedChunks |-> TRUE]
    /\ raw_text_len = [d \in Docs |-> 200]
    /\ raw_text = FixedTexts
    /\ has_links = [f \in Files |-> FALSE]
    /\ fs \in [Paths -> [bytes : Contents, mtime : {1}]]
    /\ fs[1].bytes = 1

IngestNext ==
    \/ \E w \in Workers :
         \/ IngestMain(w)
         \/ \E p \in Paths : IngestFile(w, p)
         \/ IngestCommit(w)
         \/ IngestMainDone(w)
    \/ \E p \in Paths : FsChange(p)

IngestSpec == InitIngestStage /\ [][IngestNext]_vars

\* ------------------------------------------------ the stages together
\* One archive for the run of both tiers: a single document long enough to be
\* enriched, the others below the length the batch query asks for.
InitPipeline ==
    /\ DocInit
    /\ ChunkInit
    /\ SegInit
    /\ IngestInit
    /\ SearchInit
    /\ LoopInit
    /\ call_succeeds = [c \in EmbedChunks |-> TRUE]
    /\ fs = FixedTree
    /\ raw_text_len = [d \in Docs |-> IF d = 1 THEN 200 ELSE 80]
    /\ raw_text = FixedTexts
    /\ has_links = [f \in Files |-> FALSE]

\* run_pipeline calls its stages one after the other: a worker process is
\* inside one stage function at a time
InDocStage(w) == pc[w] # "idle"
InChunkStage(w) == cpc[w] # "idle"

PipelineNext ==
    \/ \E w \in Workers :
         /\ ~InChunkStage(w)
         /\ \/ EnrichDocsBegin(w)
            \/ EnrichDocsSelect(w)
            \/ EnrichDocsMark(w)
            \/ EnrichDocsCall(w)
            \/ EnrichDocsStore(w)
            \/ EnrichDocsDone(w)
            \/ EnrichDocsAbort(w)
            \/ EmbedDocsBegin(w)
            \/ EmbedDocsSelect(w)
            \/ \E d \in Docs : EmbedDocsResult(w, d)
            \/ EmbedDocsCommit(w)
            \/ EmbedDocsAbort(w)
            \/ Crash(w)
            \/ Restart(w)
    \/ \E w \in Workers :
         /\ ~InDocStage(w)
         /\ \/ EnrichMain(w)
            \/ \E c \in Chunks : EnrichEntryLoad(w, c)
            \/ \E c \in Chunks : EnrichEntryFailed(w, c)
            \/ \E c \in Chunks : EnrichEntryEnriched(w, c)
            \/ \E c \in Chunks : EnrichEntrySaveError(w, c)
            \/ EnrichMainDone(w)
            \/ EmbedMain(w)
            \/ EmbedFetch(w)
            \/ \E c \in Chunks : EmbedSingle(w, c)
            \/ EmbedBatchCommit(w)
            \/ EmbedMainDone(w)
    \/ \E c \in Chunks : retry_entry(c)
    \/ retry_all_failed
    \/ \E c \in Chunks : re_enrich_entry(c)

PipelineSpec == InitPipeline /\ [][PipelineNext]_vars

\* ------------------------------------------------------------- rag/search.py
\* The archive is seen through one query: for each row, whether it has an
\* embedding, how close the embedding is to the query's (vector_score: the
\* higher the closer, no two rows alike) and the ts_rank_cd of the row for the
\* query (keyword_score: 0 when the row does not match the query text).
\* Where a statement leaves the order of equal scores open, the lower id is
\* taken first.

\* reciprocal rank fusion: k
RRF_K == 60
\* reciprocal rank fusion: the weights 0.7 and 0.3, in tenths
RRF_VECTOR_WEIGHT == 7
RRF_KEYWORD_WEIGHT == 3
\* COALESCE(v.vector_rank, 99999)
NO_RANK == 99999
\* LIMIT 100 of doc_vector and doc_keyword
RANK_LIMIT == 100
\* search_two_stage: stage1_docs
STAGE1_DOCS == 30
\* scores are kept as integers: the numeric value times ScoreScale, truncated
ScoreScale == 10000000

Ks == 1..MaxK

\* LIMIT n
Take(s, n) == SubSeq(s, 1, Min(n, Len(s)))

\* ORDER BY key DESC over the rows S
OrderDesc(S, key) ==
    [n \in 1..Cardinality(S) |->
        CHOOSE x \in S :
            Cardinality({y \in S : \/ key[y] > key[x]
                                   \/ key[y] = key[x] /\ y < x}) = n - 1]

\* ROW_NUMBER() of the row in the ranked list; 0 stands for NULL (no such row)
RowNumber(s, x) == IF x \in Range(s) THEN CHOOSE n \in 1..Len(s) : s[n] = x ELSE 0

\* COALESCE(rank, 0): the missing side ranked ahead of every row
coalesce_rank_zero(rank) == rank

\* COALESCE(rank, 99999)
coalesce_rank(rank) == IF rank = 0 THEN NO_RANK ELSE rank

\* (0.7 / (60.0 + vector_rank)) + (0.3 / (60.0 + keyword_rank))
rrf_score(vector_rank, keyword_rank) ==
    ((RRF_VECTOR_WEIGHT * ScoreScale) \div (RRF_K + coalesce_rank(vector_rank)))
    + ((RRF_KEYWORD_WEIGHT * ScoreScale) \div (RRF_K + coalesce_rank(keyword_rank)))

\* the rows of rrf_scores / rrf_combined for the two ranked lists
RrfRows(v, k) ==
    {[id |-> x, vector_rank |-> RowNumber(v, x), keyword_rank |-> RowNumber(k, x),
      rrf_score |-> rrf_score(RowNumber(v, x), RowNumber(k, x))] :
        x \in Range(v) \cup Range(k)}

\* ORDER BY rrf_score DESC LIMIT n
TopRrf(rows, n) ==
    LET ids == {r.id : r \in rows}
        key == [x \in ids |-> (CHOOSE r \in rows : r.id = x).rrf_score]
    IN  Take(OrderDesc(ids, key), n)

\* filter_sql: rf.extension = :ext_filter for the one extension asked for
PassesFilter(d, filters) == ~filters \/ search_docs[d].extension = 1

\* search_docs_stage1: the CTE doc_vector
doc_vector(filters) ==
    Take(OrderDesc({d \in SearchDocs : /\ search_docs[d].doc_embedding
                                       /\ PassesFilter(d, filters)},
                   [d \in SearchDocs |-> search_docs[d].vector_score]),
         RANK_LIMIT)

\* search_docs_stage1: the CTE doc_keyword
doc_keyword(filters) ==
    Take(OrderDesc({d \in SearchDocs : /\ search_docs[d].keyword_score > 0
                                       /\ PassesFilter(d, filters)},
                   [d \in SearchDocs |-> search_docs[d].keyword_score]),
         RANK_LIMIT)

Stage1Rows(filters) == RrfRows(doc_vector(filters), doc_keyword(filters))

search_docs_stage1(top_n, filters) == TopRrf(Stage1Rows(filters), top_n)

\* search_chunks_stage2: the CTE vector_ranked
vector_ranked(ids) ==
    OrderDesc({e \in SearchEntries : /\ file_id(e) \in ids
                                     /\ search_entries[e].embedding},
              [e \in SearchEntries |-> search_entries[e].vector_score])

\* search_chunks_stage2 searching every entry, whatever its document
keyword_ranked_all(ids) ==
    OrderDesc(SearchEntries,
              [e \in SearchEntries |-> search_entries[e].keyword_score])

\* search_chunks_stage2: the CTE keyword_ranked
keyword_ranked(ids) ==
    OrderDesc({e \in SearchEntries : file_id(e) \in ids},
              [e \in SearchEntries |-> search_entries[e].keyword_score])

Stage2Rows(ids) == RrfRows(vector_ranked(ids), keyword_ranked(ids))

search_chunks_stage2(ids, k) ==
    IF ids = {} THEN <<>>
    ELSE LET results == TopRrf(Stage2Rows(ids), k)
         IN  IF results = <<>>
             THEN \* sql_fallback: ORDER BY keyword_score DESC, e.id
                  Take(keyword_ranked(ids), k)
             ELSE results

\* search_keyword_only
search_keyword_only(k) ==
    Take(OrderDesc({e \in SearchEntries : search_entries[e].keyword_score > 0},
                   [e \in SearchEntries |-> search_entries[e].keyword_score]),
         k)

\* search_entries_semantic, mode keyword
KeywordMode(k) == Take(search_keyword_only(k * 2), k)

\* search_entries_semantic, mode vector: entries without an embedding have a
\* NULL distance and come last
VectorMode(k, filters) ==
    Take(OrderDesc({e \in SearchEntries : PassesFilter(file_id(e), filters)},
                   [e \in SearchEntries |->
                        IF search_entries[e].embedding
                        THEN search_entries[e].vector_score ELSE 0]),
         k)

\* search_entries_semantic, mode hybrid:
\* vector_score * 0.7 + keyword_score * 0.3, in tenths
HybridMode(k) ==
    Take(OrderDesc({e \in SearchEntries : search_entries[e].embedding},
                   [e \in SearchEntries |->
                        RRF_VECTOR_WEIGHT * search_entries[e].vector_score
                        + RRF_KEYWORD_WEIGHT * search_entries[e].keyword_score]),
         k)

\* search_entries_semantic; q_emb tells whether embed_text returned a vector
search_entries_semantic(k, filters, mode, q_emb) ==
    IF mode = SEARCH_MODE_KEYWORD THEN KeywordMode(k)
    ELSE IF ~q_emb
         THEN IF mode = SEARCH_MODE_HYBRID THEN KeywordMode(k) ELSE <<>>
         ELSE IF mode = SEARCH_MODE_VECTOR THEN VectorMode(k, filters)
              ELSE HybridMode(k)

\* search_two_stage: the chunk-level fallback as a search that finds nothing
fallback_chunk_empty(k, filters, q_emb) == <<>>

\* search_two_stage: the chunk-level fallback when stage 1 finds no document
fallback_chunk(k, filters, q_emb) ==
    search_entries_semantic(k, filters, SEARCH_MODE_HYBRID, q_emb)

\* search_two_stage; query_embedding and q_emb tell whether the first and the
\* second call of embed_text returned a vector
search_two_stage(k, filters, query_embedding, q_emb) ==
    LET doc_results == search_docs_stage1(STAGE1_DOCS, filters)
        ids == Range(doc_results)
        base == [op |-> "search_two_stage", mode |-> "two_stage", k |-> k,
                 filters |-> filters, embedded |-> query_embedding,
                 embedded_again |-> q_emb]
    IN  IF ~query_embedding
        THEN base @@ [stage |-> "embedding_failed", entries |-> <<>>, docs |-> <<>>,
                      doc_rows |-> {}, entry_rows |-> {}]
        ELSE IF doc_results = <<>>
        THEN base @@ [stage |-> "fallback_chunk",
                      entries |-> fallback_chunk(k, filters, q_emb),
                      docs |-> <<>>, doc_rows |-> {}, entry_rows |-> {}]
        ELSE base @@ [stage |-> "two_stage",
                      entries |-> search_chunks_stage2(ids, k),
                      docs |-> doc_results,
                      doc_rows |-> {r \in Stage1Rows(filters) : r.id \in ids},
                      entry_rows |-> {r \in Stage2Rows(ids) :
                                         r.id \in Range(search_chunks_stage2(ids, k))}]

\* POST /search/two-stage.  The backend may stop answering between the two
\* calls of embed_text.
SearchTwoStage(k, filters, q_emb) ==
    /\ embed_up \/ ~q_emb
    /\ q_emb = embed_up \/ search_docs_stage1(STAGE1_DOCS, filters) = <<>>
    /\ response' = search_two_stage(k, filters, embed_up, q_emb)
    /\ embed_up' = q_emb
    /\ UNCHANGED <<search_docs, search_entries>>
    /\ UNCHANGED otherThanSearch

\* POST /ask and the other endpoints that search in one stage
SearchEntriesSemantic(k, filters, mode) ==
    /\ response' = [op |-> "search_entries_semantic", mode |-> mode, k |-> k,
                    filters |-> filters, embedded |-> embed_up,
                    embedded_again |-> embed_up, stage |-> "single",
                    entries |-> search_entries_semantic(k, filters, mode, embed_up),
                    docs |-> <<>>, doc_rows |-> {}, entry_rows |-> {}]
    /\ UNCHANGED <<search_docs, search_entries, embed_up>>
    /\ UNCHANGED otherThanSearch

\* the embedding backend goes down or comes back
EmbedBackendChange ==
    /\ embed_up' = ~embed_up
    /\ UNCHANGED <<search_docs, search_entries, response>>
    /\ UNCHANGED otherThanSearch

\* The search is explored over every archive of the bounds: documents with
\* and without an embedding, matching the query text or not, the first of
\* them of the extension asked for or of another; entries likewise, in either
\* order of closeness.
InitSearch ==
    /\ DocInit
    /\ ChunkInit
    /\ SegInit
    /\ IngestInit
    /\ LoopInit
    /\ call_succeeds = [c \in EmbedChunks |-> TRUE]
    /\ fs = FixedTree
    /\ raw_text_len = [d \in Docs |-> 200]
    /\ raw_text = FixedTexts
    /\ has_links = [f \in Files |-> FALSE]
    /\ search_docs \in [SearchDocs -> [doc_embedding : BOOLEAN, vector_score : SearchDocs,
                                       keyword_score : 0..1, extension : 1..2]]
    /\ \A d \in SearchDocs : search_docs[d].vector_score = d
    /\ \A d \in SearchDocs \ {1} : search_docs[d].extension = 1
    /\ search_entries \in [SearchEntries -> [embedding : BOOLEAN,
                                             vector_score : SearchEntries,
                                             keyword_score : 0..1]]
    /\ \/ \A e \in SearchEntries : search_entries[e].vector_score = e
       \/ \A e \in SearchEntries :
            search_entries[e].vector_score = NumSearchEntries + 1 - e
    /\ embed_up \in BOOLEAN
    /\ response = NoResponse

SearchNext ==
    \/ \E k \in Ks, filters \in BOOLEAN, q_emb \in BOOLEAN :
         SearchTwoStage(k, filters, q_emb)
    \/ \E k \in Ks, filters \in BOOLEAN, mode \in SearchModes :
         SearchEntriesSemantic(k, filters, mode)
    \/ EmbedBackendChange

SearchSpec == InitSearch /\ [][SearchNext]_vars

\* ------------------------------------------------------------ worker_loop.py
\* The worker process runs run_pipeline; the API process rewrites
\* worker_state.json.  The file is read and written whole.

\* run_pipeline: total_iterations of each phase run as a loop of batches
TOTAL_ITERATIONS == [enrich_docs |-> 5, enrich |-> 50, embed_docs |-> 10, embed |-> 10]

\* the batches of one phase in one cycle, within the bound of the model
total_iterations(phase) == Min(TOTAL_ITERATIONS[phase], MaxIterations)

PhaseIndex(phase) == CHOOSE n \in 1..Len(Phases) : Phases[n] = phase

\* where run_pipeline goes when it is through with the phase
AfterPhase(phase) ==
    IF PhaseIndex(phase) = Len(Phases) THEN <<"top", "top">>
    ELSE <<Phases[PhaseIndex(phase) + 1], "gate">>

\* get_state: the flags of worker_state.json over the defaults
get_state == [f \in Flags |-> state_file[f]]

\* check_phase_enabled answering from the state read at the top of the cycle
check_phase_enabled_stale(s, phase) == s[phase]

\* check_phase_enabled: the state argument is not used, the file is read again
check_phase_enabled(s, phase) == get_state[phase]

\* services/workers.py heartbeat: an unknown worker is left alone
heartbeat(w, s) ==
    /\ worker_status' = IF worker_status[w] = "none" THEN worker_status
                        ELSE [worker_status EXCEPT ![w] = s]
    /\ last_heartbeat' = IF worker_status[w] = "none" THEN last_heartbeat
                         ELSE [last_heartbeat EXCEPT ![w] = 0]

\* worker_loop.py send_heartbeat
send_heartbeat(s) == heartbeat(LoopWorker, s)

\* the top of the cycle without the `if not state.get("running", True)` test
CycleTop_unpaused ==
    /\ lpc = <<"top", "top">>
    /\ state' = get_state
    /\ lpc' = <<Phases[1], "gate">>
    /\ iteration' = 0
    /\ turned_off' = [p \in PhaseNames |-> "no"]
    /\ LET periodic == last_heartbeat_time * SecondsPerTick > HEARTBEAT_INTERVAL
       IN  /\ last_heartbeat_time' = IF periodic THEN 0 ELSE last_heartbeat_time
           /\ IF periodic
              THEN send_heartbeat(IF get_state["running"] THEN STATUS_ACTIVE
                                  ELSE STATUS_IDLE)
              ELSE UNCHANGED <<worker_status, last_heartbeat>>
    /\ UNCHANGED <<state_file, progress, toggles, worker_config>>
    /\ UNCHANGED otherThanLoop

\* `while True:` state = get_state(); a paused worker sleeps and starts over
CycleTop ==
    /\ lpc = <<"top", "top">>
    /\ state' = get_state
    /\ lpc' = IF get_state["running"] THEN <<Phases[1], "gate">> ELSE lpc
    /\ iteration' = 0
    /\ turned_off' = [p \in PhaseNames |-> "no"]
    /\ LET periodic == last_heartbeat_time * SecondsPerTick > HEARTBEAT_INTERVAL
       IN  /\ last_heartbeat_time' = IF periodic THEN 0 ELSE last_heartbeat_time
           /\ IF ~get_state["running"] THEN send_heartbeat(STATUS_IDLE)
              ELSE IF periodic THEN send_heartbeat(STATUS_ACTIVE)
              ELSE UNCHANGED <<worker_status, last_heartbeat>>
    /\ UNCHANGED <<state_file, progress, toggles, worker_config>>
    /\ UNCHANGED otherThanLoop

\* `if state.get(phase, True):` and the call of the phase's main that follows;
\* ingest_main is called only when INGEST_INTERVAL has passed (due)
PhaseGate(phase, due) ==
    /\ lpc = <<phase, "gate">>
    /\ IF state[phase] /\ (phase = "ingest" => due)
       THEN /\ lpc' = <<phase, "batch">>
            /\ progress' = IF phase \in BatchedPhases
                           THEN [progress EXCEPT ![phase] = "running"]
                           ELSE progress
       ELSE /\ lpc' = AfterPhase(phase)
            /\ UNCHANGED progress
    /\ iteration' = 0
    /\ IF state[phase] THEN send_heartbeat(STATUS_ACTIVE)
       ELSE UNCHANGED <<worker_status, last_heartbeat>>
    /\ UNCHANGED <<state_file, state, toggles, turned_off, worker_config,
                   last_heartbeat_time>>
    /\ UNCHANGED otherThanLoop

\* the phase's main returns
BatchDone(phase) ==
    /\ lpc = <<phase, "batch">>
    /\ lpc' = IF phase \in BatchedPhases THEN <<phase, "check">> ELSE AfterPhase(phase)
    /\ UNCHANGED <<state_file, state, iteration, progress, toggles, turned_off>>
    /\ UNCHANGED workerVars
    /\ UNCHANGED otherThanLoop

\* `if not check_phase_enabled(state, phase): ... break`, else the next
\* iteration and its call of main, or the loop's else branch
NextIteration(phase) ==
    /\ lpc = <<phase, "check">>
    /\ IF ~check_phase_enabled(state, phase)
       THEN /\ progress' = [progress EXCEPT ![phase] = "stopped"]
            /\ lpc' = AfterPhase(phase)
            /\ UNCHANGED iteration
       ELSE IF iteration + 1 < total_iterations(phase)
       THEN /\ progress' = [progress EXCEPT ![phase] = "running"]
            /\ lpc' = <<phase, "batch">>
            /\ iteration' = iteration + 1
       ELSE /\ progress' = [progress EXCEPT ![phase] = "idle"]
            /\ lpc' = AfterPhase(phase)
            /\ UNCHANGED iteration
    /\ UNCHANGED <<state_file, state, toggles, turned_off>>
    /\ UNCHANGED workerVars
    /\ UNCHANGED otherThanLoop

\* the phase's main raises: `except Exception as e:` ends the cycle
PipelineError(phase) ==
    /\ lpc = <<phase, "batch">>
    /\ lpc' = <<"top", "top">>
    /\ UNCHANGED <<state_file, state, iteration, progress, toggles, turned_off>>
    /\ UNCHANGED workerVars
    /\ UNCHANGED otherThanLoop

\* where the cycle is, as seen from a phase whose flag is being turned off:
\* in an earlier phase, at the phase's own test, or in the phase's batches
WhereInCycle(phase) ==
    IF lpc[1] = "top" THEN "no"
    ELSE IF lpc[1] = phase
         THEN IF lpc[2] = "gate" THEN "at_gate" ELSE "in_loop"
         ELSE IF PhaseIndex(lpc[1]) < PhaseIndex(phase) THEN "before_turn" ELSE "no"

\* POST /worker/state: one flag of worker_state.json is rewritten
update_worker_state(flag, value) ==
    /\ toggles < MaxToggles
    /\ state_file[flag] # value
    /\ state_file' = [state_file EXCEPT ![flag] = value]
    /\ toggles' = toggles + 1
    /\ turned_off' = IF flag \in PhaseNames
                     THEN [turned_off EXCEPT
                             ![flag] = IF value THEN "no" ELSE WhereInCycle(flag)]
                     ELSE turned_off
    /\ UNCHANGED <<state, lpc, iteration, progress>>
    /\ UNCHANGED workerVars
    /\ UNCHANGED otherThanLoop

\* get_primary_worker_state: the first workers row, if there is one
Registered == {w \in Workers : worker_status[w] # "none"}
PrimaryWorker == CHOOSE w \in Registered : \A v \in Registered : w <= v

\* routers/workers.py POST /worker/state: the flag is written to the primary
\* worker's row (WorkerState.update_config, which also sets last_heartbeat),
\* and to worker_state.json only when there is no workers row
router_update_worker_state(flag, value) ==
    /\ toggles < MaxToggles
    /\ toggles' = toggles + 1
    /\ IF Registered # {}
       THEN /\ worker_config[flag] # value
            /\ worker_config' = [worker_config EXCEPT ![flag] = value]
            /\ last_heartbeat' = [last_heartbeat EXCEPT ![PrimaryWorker] = 0]
            /\ UNCHANGED state_file
       ELSE /\ state_file[flag] # value
            /\ state_file' = [state_file EXCEPT ![flag] = value]
            /\ UNCHANGED <<worker_config, last_heartbeat>>
    /\ UNCHANGED <<state, lpc, iteration, progress, turned_off, worker_status,
                   last_heartbeat_time>>
    /\ UNCHANGED otherThanLoop

\* the clock ticks
Tick ==
    /\ last_heartbeat' = [w \in Workers |-> Min(last_heartbeat[w] + 1, MaxTicks)]
    /\ last_heartbeat_time' = Min(last_heartbeat_time + 1, MaxTicks)
    /\ UNCHANGED <<worker_status, worker_config>>
    /\ UNCHANGED loopVars
    /\ UNCHANGED otherThanLoop

\* time passes while the phase's main runs
BatchTick(phase) ==
    /\ lpc = <<phase, "batch">>
    /\ Tick

\* mark_stale_workers marking every worker with an old heartbeat
mark_stale_workers_any_status ==
    /\ worker_status' =
         [w \in Workers |->
            IF /\ worker_status[w] # "none"
               /\ last_heartbeat[w] * SecondsPerTick > STALE_THRESHOLD_SECONDS
            THEN STATUS_STALE ELSE worker_status[w]]
    /\ UNCHANGED <<last_heartbeat, worker_config, last_heartbeat_time>>
    /\ UNCHANGED loopVars
    /\ UNCHANGED otherThanLoop

\* services/workers.py mark_stale_workers
mark_stale_workers ==
    /\ worker_status' =
         [w \in Workers |->
            IF /\ worker_status[w] \in {STATUS_ACTIVE, STATUS_IDLE, STATUS_STARTING}
               /\ last_heartbeat[w] * SecondsPerTick > STALE_THRESHOLD_SECONDS
            THEN STATUS_STALE ELSE worker_status[w]]
    /\ UNCHANGED <<last_heartbeat, worker_config, last_heartbeat_time>>
    /\ UNCHANGED loopVars
    /\ UNCHANGED otherThanLoop

\* services/workers.py register_worker, for a new or a known worker id
register_worker(w) ==
    /\ worker_status' = [worker_status EXCEPT ![w] = STATUS_STARTING]
    /\ last_heartbeat' = [last_heartbeat EXCEPT ![w] = 0]
    /\ UNCHANGED <<worker_config, last_heartbeat_time>>
    /\ UNCHANGED loopVars
    /\ UNCHANGED otherThanLoop

\* routers/workers.py POST /workers/{worker_id}/heartbeat: status is any string
worker_heartbeat(w, s) ==
    /\ heartbeat(w, s)
    /\ UNCHANGED <<worker_config, last_heartbeat_time>>
    /\ UNCHANGED loopVars
    /\ UNCHANGED otherThanLoop

\* services/workers.py deregister_worker
deregister_worker(w) ==
    /\ worker_status[w] # "none"
    /\ worker_status' = [worker_status EXCEPT ![w] = STATUS_STOPPED]
    /\ last_heartbeat' = [last_heartbeat EXCEPT ![w] = 0]
    /\ UNCHANGED <<worker_config, last_heartbeat_time>>
    /\ UNCHANGED loopVars
    /\ UNCHANGED otherThanLoop

\* WorkerState.update_progress: _ensure_worker_exists, then
\* worker.status = 'active' if status == 'running' else status
update_progress(w, s) ==
    /\ worker_status' = [worker_status EXCEPT
                            ![w] = IF s = "running" THEN "active" ELSE s]
    /\ last_heartbeat' = [last_heartbeat EXCEPT ![w] = 0]
    /\ UNCHANGED <<worker_config, last_heartbeat_time>>
    /\ UNCHANGED loopVars
    /\ UNCHANGED otherThanLoop

\* WorkerState.set_status
set_status(w, s) ==
    /\ worker_status' = [worker_status EXCEPT ![w] = s]
    /\ last_heartbeat' = [last_heartbeat EXCEPT ![w] = 0]
    /\ UNCHANGED <<worker_config, last_heartbeat_time>>
    /\ UNCHANGED loopVars
    /\ UNCHANGED otherThanLoop

\* the statuses the callers of the heartbeat endpoint and of set_status send
SentStatuses == {STATUS_ACTIVE, STATUS_IDLE, "busy"}
\* the statuses update_progress documents for its argument
ProgressStatuses == {"running", "stopping", "stopped", "idle"}

InitLoop ==
    /\ DocInit
    /\ ChunkInit
    /\ SegInit
    /\ IngestInit
    /\ SearchInit
    /\ LoopInit
    /\ call_succeeds = [c \in EmbedChunks |-> TRUE]
    /\ fs = FixedTree
    /\ raw_text_len = [d \in Docs |-> 200]
    /\ raw_text = FixedTexts
    /\ has_links = [f \in Files |-> FALSE]

LoopNext ==
    \/ CycleTop
    \/ \E phase \in PhaseNames, due \in BOOLEAN : PhaseGate(phase, due)
    \/ \E phase \in PhaseNames : BatchDone(phase)
    \/ \E phase \in BatchedPhases : NextIteration(phase)
    \/ \E phase \in PhaseNames : PipelineError(phase)
    \/ \E flag \in Flags, value \in BOOLEAN : update_worker_state(flag, value)
    \/ \E flag \in Flags, value \in BOOLEAN : router_update_worker_state(flag, value)

LoopSpec == InitLoop /\ [][LoopNext]_vars

\* the worker loop with all phases on, the clock and an observer
HeartbeatNext ==
    \/ CycleTop
    \/ \E phase \in PhaseNames, due \in BOOLEAN : PhaseGate(phase, due)
    \/ \E phase \in PhaseNames : BatchDone(phase)
    \/ \E phase \in BatchedPhases : NextIteration(phase)
    \/ \E phase \in PhaseNames : PipelineError(phase)
    \/ \E phase \in PhaseNames : BatchTick(phase)
    \/ mark_stale_workers

HeartbeatSpec == InitLoop /\ [][HeartbeatNext]_vars

\* the workers rows under the operations of the workers service
WorkersNext ==
    \/ \E w \in Workers : register_worker(w)
    \/ \E w \in Workers, s \in SentStatuses : worker_heartbeat(w, s)
    \/ \E w \in Workers : deregister_worker(w)
    \/ \E w \in Workers, s \in ProgressStatuses : update_progress(w, s)
    \/ \E w \in Workers, s \in SentStatuses : set_status(w, s)
    \/ mark_stale_workers
    \/ Tick

WorkersSpec == InitLoop /\ [][WorkersNext]_vars

\* ---------------------------------------------------------------------------
\* llm_client.py: one embedding call to the Ollama backend

EMBEDDING_MAX_CHARS == 8000
EMBEDDING_RETRY_ATTEMPTS == 2

\* the lengths of the texts handed to embed_text
TextLens == {0, 1, 2, 5, 8000, 12001}

\* what the backend does with one request: a vector; an HTTP error 500/400/413
\* whose body speaks of the context length; another HTTP error; no HTTP
\* answer at all (connection error, timeout)
Answers == {"ok", "context_length", "http_error", "request_error"}

\* a sanitizer that cuts nothing
sanitize_embedding_prompt_uncut(chars, max_chars) == chars

\* _sanitize_embedding_prompt, on the length of the text
sanitize_embedding_prompt(chars, max_chars) ==
    IF max_chars > 0 /\ chars > max_chars THEN max_chars ELSE chars

\* max(1, int(len(prompt) * 0.5))
HalfChars(chars) == IF chars \div 2 < 1 THEN 1 ELSE chars \div 2

\* range(1, max(1, EMBEDDING_RETRY_ATTEMPTS) + 1)
LastAttempt == IF EMBEDDING_RETRY_ATTEMPTS < 1 THEN 1 ELSE EMBEDDING_RETRY_ATTEMPTS

\* _ollama_embed is called: the prompt is cut to EMBEDDING_MAX_CHARS
ollama_embed(chars) ==
    /\ ecpc = "idle"
    /\ ecpc' = "request"
    /\ prompt' = sanitize_embedding_prompt(chars, EMBEDDING_MAX_CHARS)
    /\ attempt' = 1
    /\ call_result' = "none"
    /\ outcomes' = <<>>
    /\ UNCHANGED <<ppc, pass_embedding, call_succeeds, pass_processed, pass_total>>
    /\ UNCHANGED otherThanEmbed

\* one turn of `for attempt in range(...)`: requests.post and what follows it
EmbedRequest(answer) ==
    /\ ecpc = "request"
    /\ outcomes' = Append(outcomes, [chars |-> prompt, answer |-> answer])
    /\ LET retry == /\ attempt < EMBEDDING_RETRY_ATTEMPTS
                    /\ attempt < LastAttempt
       IN  CASE answer = "ok" ->
                  /\ call_result' = "vector"
                  /\ ecpc' = "returned"
                  /\ UNCHANGED <<attempt, prompt>>
             [] answer = "context_length" /\ retry ->
                  /\ prompt' = sanitize_embedding_prompt(prompt, HalfChars(prompt))
                  /\ attempt' = attempt + 1
                  /\ UNCHANGED <<ecpc, call_result>>
             [] answer = "request_error" /\ retry ->
                  /\ attempt' = attempt + 1
                  /\ UNCHANGED <<ecpc, call_result, prompt>>
             [] OTHER ->
                  /\ call_result' = "null"
                  /\ ecpc' = "returned"
                  /\ UNCHANGED <<attempt, prompt>>
    /\ UNCHANGED <<ppc, pass_embedding, call_succeeds, pass_processed, pass_total>>
    /\ UNCHANGED otherThanEmbed

\* the caller has the result: embed_batch stores a vector, and leaves the
\* entry's embedding NULL when there is none
EmbedReturned ==
    /\ ecpc = "returned"
    /\ ecpc' = "idle"
    /\ UNCHANGED <<attempt, prompt, call_result, outcomes>>
    /\ UNCHANGED <<ppc, pass_embedding, call_succeeds, pass_processed, pass_total>>
    /\ UNCHANGED otherThanEmbed

EmbedCallNext ==
    \/ \E chars \in TextLens : ollama_embed(chars)
    \/ \E answer \in Answers : EmbedRequest(answer)
    \/ EmbedReturned

EmbedCallSpec == InitLoop /\ [][EmbedCallNext]_vars

\* ---------------------------------------------------------------------------
\* rag/embed_entries.py: the passes of main over the enriched entries

\* Entry.embedding.is_(None), Entry.status == 'enriched'
NeedingEmbed == {c \in EmbedChunks : ~pass_embedding[c]}

\* .limit(BATCH_SIZE).all(): the query has no ORDER BY, any BATCH_SIZE rows
\* of the matching ones may be returned
BatchesOf(S) ==
    {B \in SUBSET S : Cardinality(B) = Min(EmbedBatchLimit, Cardinality(S))}

\* main up to the while loop
EmbedMainStart ==
    /\ ppc = "idle"
    /\ pass_total' = Cardinality(NeedingEmbed)
    /\ pass_processed' = 0
    /\ ppc' = IF NeedingEmbed = {} THEN "idle" ELSE "loop"
    /\ UNCHANGED <<pass_embedding, call_succeeds>>
    /\ UNCHANGED <<ecpc, attempt, prompt, call_result, outcomes>>
    /\ UNCHANGED otherThanEmbed

\* one turn of `while processed < pass_total`: a batch is fetched
\* and embed_batch stores the vectors it got
EmbedMainBatch ==
    /\ ppc = "loop"
    /\ IF pass_processed >= pass_total \/ NeedingEmbed = {}
       THEN /\ ppc' = "idle"
            /\ UNCHANGED <<pass_embedding, pass_processed>>
       ELSE \E entries_batch \in BatchesOf(NeedingEmbed) :
            /\ pass_embedding' = [c \in EmbedChunks |->
                                    \/ pass_embedding[c]
                                    \/ (c \in entries_batch /\ call_succeeds[c])]
            /\ pass_processed' = pass_processed + Cardinality(entries_batch)
            /\ UNCHANGED ppc
    /\ UNCHANGED <<call_succeeds, pass_total>>
    /\ UNCHANGED <<ecpc, attempt, prompt, call_result, outcomes>>
    /\ UNCHANGED otherThanEmbed

InitEmbedPass ==
    /\ DocInit /\ ChunkInit /\ SegInit /\ IngestInit /\ SearchInit /\ LoopInit
    /\ call_succeeds \in [EmbedChunks -> BOOLEAN]
    /\ fs = FixedTree
    /\ raw_text_len = [d \in Docs |-> 200]
    /\ raw_text = FixedTexts
    /\ has_links = [f \in Files |-> FALSE]

EmbedPassNext ==
    \/ EmbedMainStart
    \/ EmbedMainBatch

EmbedPassSpec == InitEmbedPass /\ [][EmbedPassNext]_vars

\* the worker loop calls embed_main in every cycle and every pass goes on
FairEmbedPassSpec ==
    EmbedPassSpec /\ WF_vars(EmbedMainStart) /\ WF_vars(EmbedMainBatch)

\* ------------------------------------------------------------- claims
InEnrichDocs(w) == pc[w] \in {"ed_mark", "ed_loop", "ed_store"}
InEmbedDocs(w) == pc[w] = "em_embed"

\* C1: with any number of workers running enrich_docs_batch concurrently, a
\* document is claimed by at most one worker: the batches of two workers never
\* share a document, and the LLM is called for a document by one worker only.
C1_DocClaimedByOneWorker ==
    /\ \A w1, w2 \in Workers :
         (w1 # w2 /\ InEnrichDocs(w1) /\ InEnrichDocs(w2))
            => Range(doc_ids[w1]) \cap Range(doc_ids[w2]) = {}
    /\ \A d \in Docs : Cardinality(llm_callers[d]) <= 1

\* two workers are inside their loops at once, each on a batch of its own, and
\* each has called the LLM for a document
C1_Witness ==
    \E w1, w2 \in Workers :
        /\ w1 # w2
        /\ pc[w1] = "ed_store" /\ pc[w2] = "ed_store"
        /\ \E d1 \in Range(doc_ids[w1]), d2 \in Range(doc_ids[w2]) :
             llm_callers[d1] = {w1} /\ llm_callers[d2] = {w2}

\* C4: with concurrent workers running embed_docs_batch, no document is embedded
\* by two workers: the rows a worker selected stay locked by it, still enriched
\* for everyone else, until it commits; no other batch holds them; and the
\* outcome of a document's embedding is committed by one worker only.
C4_DocEmbeddedByOneWorker ==
    /\ \A w \in Workers : InEmbedDocs(w) =>
         \A d \in Range(doc_ids[w]) :
            /\ row_lock[d] = w
            /\ doc_status[d] = "enriched"
            /\ \A w2 \in Workers \ {w} : InEmbedDocs(w2) => d \notin Range(doc_ids[w2])
    /\ \A d \in Docs : Cardinality(embed_writers[d]) <= 1

\* two workers embed at once, each holding rows the other skipped, and one
\* worker's outcome for some other document is already committed
C4_Witness ==
    \E w1, w2 \in Workers :
        /\ w1 # w2
        /\ InEmbedDocs(w1) /\ InEmbedDocs(w2)
        /\ \E d \in Range(doc_ids[w1]) : tx_status[w1][d] = "embedded"
        /\ \E d \in Docs : embed_writers[d] # {}

\* C5: no work is lost on crash: a document committed as enriching is
\* eventually enriched or marked error, whatever happens to the worker that
\* claimed it.
C5_EnrichingEventuallyLeaves ==
    \A d \in Docs :
        (doc_status[d] = "enriching") ~> (doc_status[d] \in {"enriched", "error"})

\* the chunks worker w has claimed for enrichment and not finished with
EnrichBatch(w) == entry_ids[w] \cup Threads(w)

\* C2: with two or more workers running enrich_entries.main concurrently, a
\* chunk in one worker's batch is in no other worker's batch until the first
\* worker has finished with it.
C2_ChunkEnrichedByOneWorker ==
    \A w1, w2 \in Workers :
        w1 # w2 => EnrichBatch(w1) \cap EnrichBatch(w2) = {}

\* C3: with two or more workers running embed_entries.main concurrently, a
\* chunk in one worker's embedding batch is in no other worker's batch, so the
\* embedding backend is called for it by one worker only.
C3_ChunkEmbeddedByOneWorker ==
    \A w1, w2 \in Workers :
        w1 # w2 => entries[w1] \cap entries[w2] = {}

\* C7: in every reachable state, every chunk with status = pending has
\* retry_count < MAX_RETRIES.
C7_PendingBelowMaxRetries ==
    \A c \in Chunks : status[c] = "pending" => retry_count[c] < MAX_RETRIES

\* C8: over enrichment attempts (steps that are not resets) retry_count never
\* decreases, and status changes to error exactly on the step that brings
\* retry_count to MAX_RETRIES: never at another count, and the chunk is never
\* left pending at that count.
C8_RetryMonotonic ==
    [][resets' = resets =>
         \A c \in Chunks :
            /\ retry_count'[c] >= retry_count[c]
            /\ (status[c] # "error" /\ status'[c] = "error")
                  => (retry_count[c] < MAX_RETRIES /\ retry_count'[c] = MAX_RETRIES)
            /\ (retry_count[c] < MAX_RETRIES /\ retry_count'[c] >= MAX_RETRIES)
                  => status'[c] = "error"]_vars

\* C9: between resets a chunk undergoes at most MAX_RETRIES failed LLM
\* enrichment attempts, counted across all workers and passes.
C9_FailedAttemptsBounded ==
    \A c \in Chunks : failed_attempts[c] <= MAX_RETRIES

\* C10: a chunk whose third consecutive failure has been recorded is at
\* status = error, retry_count = 3, and stays that way until it is reset: no
\* later batch selects it and no enrichment worker changes it.
C10_ExhaustedStaysError ==
    [][\A c \in Chunks :
         /\ (failed_attempts[c] < MAX_RETRIES /\ failed_attempts'[c] = MAX_RETRIES)
               => (status'[c] = "error" /\ retry_count'[c] = MAX_RETRIES)
         /\ (status[c] = "error" /\ retry_count[c] = MAX_RETRIES /\ resets' = resets)
               => /\ status'[c] = "error"
                  /\ retry_count'[c] = MAX_RETRIES
                  /\ \A w \in Workers : c \in entry_ids'[w] => c \in entry_ids[w]]_vars

\* the workers whose entries rows a file has
Segmenters(f) == {r.by : r \in EntriesOf(f)}

\* C6: with N workers running the segment stage concurrently, each file is
\* segmented by at most one worker: no file ends up with chunks written by two
\* workers that both found it without chunks.
C6_FileSegmentedByOneWorker ==
    \A f \in Files : Cardinality(Segmenters(f)) <= 1

\* C11: cross-stage ordering by status gating: the chunk embedding stage picks
\* up only chunks whose status is enriched and the document embedding stage
\* only documents whose doc_status is enriched; an embedding is stored only for
\* a unit that was picked up that way.
C11_EmbeddingGatedByStatus ==
    [][/\ \A w \in Workers : \A c \in Chunks :
            (c \in entries'[w] /\ c \notin entries[w]) => status[c] = "enriched"
       /\ \A w \in Workers : \A d \in Docs :
            (InEmbedDocs(w)' /\ ~InEmbedDocs(w) /\ d \in Range(doc_ids'[w]))
               => doc_status[d] = "enriched"
       /\ \A c \in Chunks :
            (embedding'[c] /\ ~embedding[c]) => \E w \in Workers : c \in entries[w]
       /\ \A d \in Docs :
            (doc_embedding'[d] /\ ~doc_embedding[d]) => doc_status[d] = "enriched"]_vars

\* a chunk and a document have both been embedded after their enrichment, and
\* a chunk sits in a worker's embedding batch
C11_Witness ==
    /\ \E c \in Chunks : embedding[c]
    /\ \E d \in Docs : doc_embedding[d] /\ doc_status[d] = "embedded"
    /\ \E w \in Workers : entries[w] # {}

\* C12: every successful chunk enrichment leaves the chunk with status =
\* enriched and no stored embedding, so that the embedding stage picks it up
\* again.
C12_EnrichedClearsEmbedding ==
    [][\A w \in Workers : \A c \in Chunks :
          EnrichEntryEnriched(w, c) => (status'[c] = "enriched" /\ ~embedding'[c])]_vars

\* C13: in every stage batch a failure on one unit does not keep the other
\* units of the batch from being processed and having their results committed:
\* when a worker leaves a document enrichment batch from the step that stores
\* one document, the other documents of the batch have been processed; when it
\* leaves a document embedding batch, every result it had obtained is committed;
\* and a chunk embedding batch ends with every obtained embedding stored.
C13_BatchUnitsIndependent ==
    [][\A w \in Workers :
          /\ (pc[w] = "ed_store" /\ pc'[w] = "idle")
                => \A d \in Range(doc_ids[w]) \ {doc_ids[w][pos[w]]} :
                      doc_status'[d] \in {"enriched", "error"}
          /\ (InEmbedDocs(w) /\ pc'[w] = "idle")
                => \A d \in Range(doc_ids[w]) :
                      tx_status[w][d] # "none" => doc_status'[d] = tx_status[w][d]
          /\ (cpc[w] = "embed" /\ cpc'[w] # "embed")
                => \A c \in entries[w] : emb_result[w][c] = "ok" => embedding'[c]]_vars

\* C14: when the LLM fails for a claimed document its doc_status becomes error,
\* and from then on no stage selects it or modifies it: no batch takes it in,
\* the LLM is not called for it again, and its doc_status, summary and
\* embedding stay as they are.
C14_DocErrorAbsorbing ==
    [][\A d \in Docs :
          /\ (\E w \in Workers : /\ pc[w] = "ed_store" /\ pc'[w] = "ed_loop"
                                 /\ result[w] = "failed"
                                 /\ d = doc_ids[w][pos[w]])
                => doc_status'[d] = "error"
          /\ doc_status[d] = "error"
                => /\ doc_status'[d] = "error"
                   /\ doc_summary_ok'[d] = doc_summary_ok[d]
                   /\ doc_embedding'[d] = doc_embedding[d]
                   /\ llm_callers'[d] = llm_callers[d]
                   /\ \A w \in Workers :
                         d \in Range(doc_ids'[w]) => d \in Range(doc_ids[w])]_vars

\* a document the LLM failed on is in error while a worker, having passed over
\* it, works on a later batch
C14_Witness ==
    \E d \in Docs :
        /\ doc_status[d] = "error"
        /\ llm_callers[d] # {}
        /\ \E w \in Workers :
              /\ pc[w] \in {"ed_loop", "ed_store", "em_embed"}
              /\ doc_ids[w] # <<>>
              /\ d \notin Range(doc_ids[w])
        /\ \A w \in Workers : d \notin Range(doc_ids[w])

\* C15: in every reachable state every document's doc_status is one of
\* pending, enriching, enriched, embedded, error.
C15_DocStatusValues ==
    \A d \in Docs :
        doc_status[d] \in {"pending", "enriching", "enriched", "embedded", "error"}

\* C16: resetting a chunk (retry_entry, retry_all_failed or re_enrich_entry)
\* leaves it with status = pending, retry_count = 0 and its extracted metadata
\* and embedding cleared.
C16_ResetClearsChunk ==
    [][\A c \in Chunks :
          (\/ retry_entry(c)
           \/ re_enrich_entry(c)
           \/ (retry_all_failed /\ (status[c] = "error" \/ retry_count[c] >= MAX_RETRIES)))
             => /\ status'[c] = "pending"
                /\ retry_count'[c] = 0
                /\ ~metadata'[c]
                /\ ~embedding'[c]]_vars

\* C17: ingestion is idempotent: a pass that follows a whole pass, with no
\* change of the source tree and no write of another worker since that pass
\* began, classifies every file as skipped, counts zero new and zero updated
\* records and writes nothing.
C17_IngestIdempotent ==
    \A w \in Workers :
        unchanged_pass[w] = "second"
           => /\ new_files[w] = 0
              /\ updated_files[w] = 0
              /\ errors[w] = 0
              /\ ipc[w] # "write"

\* the raw_files rows that exist
Documents == {i \in RowIds : raw_files[i] # NoRow}

\* C18: in every reachable state no two Document records share a SHA-256, and
\* ingesting a file whose bytes are already stored under another path leaves
\* exactly one record with that digest, whose path is that of the file ingested
\* later (an ingest_file call that ran after the record's last write, not one
\* that overlapped it).
C18_ShaUnique ==
    [][/\ \A i, j \in Documents' :
            i # j => raw_files'[i].sha256 # raw_files'[j].sha256
       /\ \A w \in Workers :
            (/\ ipc[w] = "write" /\ ipc'[w] = "scan" /\ errors'[w] = errors[w]
             /\ (pending_write[w].id # 0
                   => raw_files[pending_write[w].id] = pending_write[w].loaded))
               => LET pw == pending_write[w]
                      same == {i \in RowIds : raw_files'[i].sha256 = pw.row.sha256}
                  IN  /\ Cardinality(same) = 1
                      /\ \A i \in same : raw_files'[i].path = pw.path]_vars

\* two files with the same bytes have both been ingested: one record, under the
\* path of the second
C18_Witness ==
    /\ fs[1].bytes = fs[2].bytes
    /\ \E w \in Workers :
          /\ ipc[w] = "scan" /\ scan[w] = {}
          /\ new_files[w] = 1 /\ updated_files[w] = 1
    /\ Cardinality(Documents) = 1
    /\ \A i \in Documents : raw_files[i].path = 2 /\ raw_files[i].sha256 = fs[2].bytes

\* the file at path p has one stored record, row i, its (path, mtime, size)
\* match it, and the pass of worker w has loaded that record or none for p
MatchesStored(w, p, i) ==
    /\ RowsByPath(p) = {i}
    /\ raw_files[i].mtime = fs[p].mtime
    /\ raw_files[i].size_bytes = SizeOf(fs[p].bytes)
    /\ path_cache[w][p] \in {NoCache, CacheOf(raw_files[i])}

\* C19: a file whose (path, mtime, size) matches its stored record is skipped
\* without being hashed or written, unless the stored status is extract_failed:
\* then extraction is attempted again on that pass, and the record becomes ok
\* if the retry yields text.
C19_UnchangedSkippedUnlessFailed ==
    [][\A w \in Workers :
          /\ \A p \in Paths : \A i \in RowIds :
               (ipc[w] = "scan" /\ p \in scan[w] /\ p \notin scan'[w]
                /\ MatchesStored(w, p, i))
                  => IF raw_files[i].status = "extract_failed"
                     THEN raw_files[i].sha256 = fs[p].bytes
                             => /\ extracted'[w]
                                /\ ipc'[w] = "write"
                                /\ pending_write'[w].id = i
                     ELSE /\ skipped_files'[w] = skipped_files[w] + 1
                          /\ ~hashed'[w]
                          /\ ipc'[w] = "scan"
          /\ (/\ ipc[w] = "write" /\ ipc'[w] = "scan" /\ errors'[w] = errors[w]
              /\ pending_write[w].id # 0
              /\ pending_write[w].loaded.status = "extract_failed"
              /\ pending_write[w].row.status = "ok")
                => raw_files'[pending_write[w].id].status = "ok"]_vars

\* an unchanged file whose record is extract_failed has been extracted again,
\* text came out and the record is ok
C19_Witness ==
    \E w \in Workers : \E i \in Documents :
        /\ ipc[w] = "scan"
        /\ extracted[w]
        /\ updated_files[w] > 0
        /\ raw_files[i].status = "ok"
        /\ unchanged_pass[w] = "second"

\* C20: no two stored chunks share a content_hash, after any sequence or
\* interleaving of segment_file calls.
C20_ContentHashUnique ==
    \A r1, r2 \in entry_rows : r1.content_hash = r2.content_hash => r1 = r2

\* C21: segmenting a single file whose two paragraphs are identical after
\* normalisation (lower-casing, whitespace collapsing) stores exactly one chunk
\* for that pair, not two.
C21_IdenticalParagraphsOneChunk ==
    \A f \in Files :
        (/\ \E w \in Workers : seg_run[w] = "settled"
         /\ Len(raw_text[f]) = 2
         /\ raw_text[f][1].norm = raw_text[f][2].norm
         /\ ParaLen(raw_text[f][1]) >= MIN_ENTRY_LENGTH
         /\ \A g \in Files \ {f} : raw_text[g] = <<>>)
            => Cardinality(EntriesOf(f)) = 1

\* C22: the segmentation stage is idempotent: a file that already has chunks is
\* skipped entirely, and running the stage again over an unchanged store creates
\* no chunk and no Link row.
C22_SegmentIdempotent ==
    [][\A w \in Workers :
          /\ seg_run'[w] = "second" => ~made_entries'[w] /\ ~made_links'[w]
          /\ \A f \in Files :
               (spc[w] = "files" /\ f \in files[w] /\ f \notin files'[w]
                /\ EntriesOf(f) # {})
                  => /\ spc'[w] = "files"
                     /\ UNCHANGED <<entry_rows, link_rows, new_entries>>]_vars

\* C23: every chunk the segmenter produces is at most MAX_ENTRY_LENGTH characters
\* long, or at most MAX_ENTRY_LENGTH + OVERLAP_LENGTH when an overlap prefix was
\* added.
C23_ChunkLengthBounded ==
    \A r \in entry_rows :
        \/ r.entry_text.len <= MAX_ENTRY_LENGTH
        \/ /\ r.entry_text.prefix # NoPara
           /\ r.entry_text.len <= MAX_ENTRY_LENGTH + OVERLAP_LENGTH

\* C24: with an embedding backend that fails, search_two_stage still returns
\* the keyword-ranked results: the entries of its answer are those of the
\* keyword search for the same query and k, not an empty list standing for the
\* failed embedding.
C24_TwoStageKeywordFallback ==
    (response.op = "search_two_stage" /\ ~response.embedded)
        => response.entries = KeywordMode(response.k)

\* C25: in every mode of search_entries_semantic, when the query cannot be
\* embedded the answer is the keyword-only ranking for the same query and k.
C25_SemanticKeywordFallback ==
    (response.op = "search_entries_semantic" /\ ~response.embedded)
        => response.entries = KeywordMode(response.k)

\* C26: when stage 1 of search_two_stage finds no document, the call does not
\* fail: its entries are exactly those of the single-stage hybrid search over
\* all entries for the same query, k and filters, and its document list is
\* empty.
C26_NoDocsFallsBackToHybrid ==
    (/\ response.op = "search_two_stage"
     /\ response.embedded
     /\ search_docs_stage1(STAGE1_DOCS, response.filters) = <<>>)
        => /\ response.stage = "fallback_chunk"
           /\ response.entries =
                search_entries_semantic(response.k, response.filters,
                                        SEARCH_MODE_HYBRID, response.embedded_again)
           /\ response.docs = <<>>

C26_Witness ==
    /\ response.op = "search_two_stage"
    /\ response.embedded
    /\ search_docs_stage1(STAGE1_DOCS, response.filters) = <<>>
    /\ response.entries # <<>>

\* the entries of the documents stage 1 selected
EntriesOfDocs(ids) == {e \in SearchEntries : file_id(e) \in ids}

\* C27: stage 2 returns only entries of the documents stage 1 selected; when
\* none of their entries has an embedding it returns the first k of them by
\* keyword rank, which is not empty whenever one of them matches the query text.
C27_Stage2WithinSelectedDocs ==
    response.stage = "two_stage" =>
        LET ids == Range(response.docs)
        IN  /\ \A e \in Range(response.entries) : file_id(e) \in ids
            /\ (\A e \in EntriesOfDocs(ids) : ~search_entries[e].embedding)
                 => /\ response.entries =
                         Take(OrderDesc(EntriesOfDocs(ids),
                                        [e \in SearchEntries |->
                                            search_entries[e].keyword_score]),
                              response.k)
                    /\ (\E e \in EntriesOfDocs(ids) : search_entries[e].keyword_score > 0)
                         => response.entries # <<>>

C27_Witness ==
    /\ response.stage = "two_stage"
    /\ \A e \in EntriesOfDocs(Range(response.docs)) : ~search_entries[e].embedding
    /\ Len(response.entries) = 2
    /\ search_entries[response.entries[1]].keyword_score
         > search_entries[response.entries[2]].keyword_score
    /\ response.entries[1] > response.entries[2]

\* C28: a candidate that is in only one of the two ranked lists gets a
\* positive score, and for every rank r of a top-100 list a candidate at rank
\* r in both lists scores strictly higher than one at rank r in the vector list
\* only or in the keyword list only.
C28_RrfScoreOrdering ==
    /\ \A row \in response.doc_rows \cup response.entry_rows :
         /\ row.rrf_score = rrf_score(row.vector_rank, row.keyword_rank)
         /\ (row.vector_rank = 0 \/ row.keyword_rank = 0) => row.rrf_score > 0
    /\ \A r \in 1..RANK_LIMIT :
         /\ rrf_score(r, 0) > 0
         /\ rrf_score(0, r) > 0
         /\ rrf_score(r, r) > rrf_score(r, 0)
         /\ rrf_score(r, r) > rrf_score(0, r)

C28_Witness ==
    /\ \E row \in response.doc_rows : row.vector_rank = 0 /\ row.keyword_rank = 1
    /\ \E row \in response.doc_rows : row.vector_rank = 1 /\ row.keyword_rank = 0
    /\ \E row \in response.entry_rows : row.vector_rank = 0 /\ row.keyword_rank > 0
    /\ \E row \in response.entry_rows : row.vector_rank = 1 /\ row.keyword_rank = 1

C30_PhaseReadsLiveFlag ==
    [][\A phase \in PhaseNames :
         (lpc = <<phase, "gate">> /\ lpc' = <<phase, "batch">>)
            => turned_off[phase] # "before_turn"]_vars

\* C39: in every reachable state a chunk that has a stored embedding has
\* status = enriched: no pending or error chunk holds an embedding.
C39_EmbeddingImpliesEnriched ==
    \A c \in Chunks : embedding[c] => status[c] = "enriched"

\* C40: in every reachable state at most one raw_files row has a given path.
C40_PathUnique ==
    \A i, j \in RowIds :
        (/\ raw_files[i] # NoRow
         /\ raw_files[j] # NoRow
         /\ raw_files[i].path = raw_files[j].path) => i = j

\* C38: a cycle that reads running = false starts no batch and only sends an
\* idle heartbeat; a batch is started only in a cycle whose read of the running
\* flag gave true.
C38_PausedCycleStartsNoBatch ==
    [][/\ (lpc'[2] = "batch" /\ lpc' # lpc) => state["running"]
       /\ (CycleTop /\ ~state'["running"]) =>
              /\ lpc' = <<"top", "top">>
              /\ worker_status'[LoopWorker] = STATUS_IDLE
              /\ progress' = progress]_vars

\* C38 witness: the cycle has read running = false and the worker is idle at the
\* top of the cycle
C38_Witness ==
    /\ ~state["running"]
    /\ lpc = <<"top", "top">>
    /\ worker_status[LoopWorker] = STATUS_IDLE
    /\ toggles > 0

\* C31: a switch changed through the workers API while a worker is registered
\* is the value the worker loop reads at its next check (get_state), and the
\* flags the loop reads never differ from the flags of the worker's row.
C31_SwitchThroughStore ==
    [][\A flag \in Flags, value \in BOOLEAN :
          (router_update_worker_state(flag, value) /\ Registered # {}) =>
              /\ get_state'[flag] = value
              /\ \A f \in Flags : get_state'[f] = worker_config'[f]]_vars

\* the workers mark_stale_workers is to mark: live by status and with a
\* heartbeat older than the threshold
PastThreshold(w) == last_heartbeat[w] * SecondsPerTick > STALE_THRESHOLD_SECONDS
LiveStatus(w) == worker_status[w] \in {STATUS_STARTING, STATUS_ACTIVE, STATUS_IDLE}

\* C32: mark_stale_workers sets status stale on exactly the workers whose status
\* is starting, active or idle and whose last heartbeat is older than the
\* threshold, and leaves every other worker (stopped, stale, within the
\* threshold) as it was; a worker becomes stale in no other way.
C32_StaleExactly ==
    [][/\ mark_stale_workers =>
            \A w \in Workers :
                worker_status'[w] = IF LiveStatus(w) /\ PastThreshold(w)
                                    THEN STATUS_STALE ELSE worker_status[w]
       /\ \A w \in Workers :
            (worker_status'[w] = STATUS_STALE /\ worker_status[w] # STATUS_STALE)
                => (LiveStatus(w) /\ PastThreshold(w))]_vars

\* C32 witness: one worker has been marked stale while a stopped worker with a
\* heartbeat as old has kept its status
C32_Witness ==
    \E w, v \in Workers :
        /\ worker_status[w] = STATUS_STALE
        /\ worker_status[v] = STATUS_STOPPED
        /\ PastThreshold(w)
        /\ PastThreshold(v)

\* C33: the status of every workers row is always one of starting, active,
\* idle, stale, stopped.
C33_StatusInDomain ==
    \A w \in Registered :
        worker_status[w] \in {STATUS_STARTING, STATUS_ACTIVE, STATUS_IDLE,
                              STATUS_STALE, STATUS_STOPPED}

\* C37: a live worker running its pipeline loop sends its heartbeats no more
\* than the stale threshold apart, so its row is never marked stale, also while
\* the batches of one phase take longer than the threshold.
C37_LiveWorkerNeverStale ==
    /\ ~PastThreshold(LoopWorker)
    /\ worker_status[LoopWorker] # STATUS_STALE

\* the requests of the call that were answered with the given answers
RequestsAnswered(answers) ==
    {i \in 1..Len(outcomes) : outcomes[i].answer \in answers}

\* every request but the last is followed by another one of the same call
Followed(i) == i < Len(outcomes)

\* half the input, rounded down; an input of one character or none has no half
Halved(chars) == IF chars <= 1 THEN chars ELSE chars \div 2

\* the call makes no more than EMBEDDING_RETRY_ATTEMPTS requests, and after a
\* context-length error the next request carries half the input
BoundedAndHalved ==
    /\ Len(outcomes) <= EMBEDDING_RETRY_ATTEMPTS
    /\ \A i \in RequestsAnswered({"context_length"}) :
          Followed(i) => outcomes[i + 1].chars = Halved(outcomes[i].chars)

\* C34 as stated: an embedding call makes at most EMBEDDING_RETRY_ATTEMPTS
\* requests, halves the input after each context-length error, and returns no
\* vector when the attempts are used up or on any other error.
C34_EmbedCallAsStated ==
    /\ BoundedAndHalved
    /\ \A i \in RequestsAnswered({"http_error", "request_error"}) :
          /\ ~Followed(i)
          /\ ecpc # "request"
          /\ call_result = "null"
    /\ (/\ ecpc # "request"
        /\ Len(outcomes) = EMBEDDING_RETRY_ATTEMPTS
        /\ outcomes[Len(outcomes)].answer # "ok") => call_result = "null"

\* C34 amended: an embedding call makes at most EMBEDDING_RETRY_ATTEMPTS
\* requests; after a context-length error the next request carries half the
\* input; after a request error (no HTTP answer) the next request carries the
\* same input; an HTTP error that is no context-length error ends the call;
\* the call returns no vector when it ends on an error, and a vector only
\* when its last request was answered with one.
C34_EmbedCallBounded ==
    /\ BoundedAndHalved
    /\ \A i \in RequestsAnswered({"request_error"}) :
          Followed(i) => outcomes[i + 1].chars = outcomes[i].chars
    /\ \A i \in RequestsAnswered({"http_error", "ok"}) : ~Followed(i)
    /\ \A i \in RequestsAnswered({"context_length", "request_error"}) :
          (i < EMBEDDING_RETRY_ATTEMPTS) => (Followed(i) \/ ecpc = "request")
    /\ (ecpc # "request" /\ outcomes # <<>>) =>
          (call_result = "vector") = (outcomes[Len(outcomes)].answer = "ok")
    /\ (ecpc # "request" /\ outcomes # <<>>) => call_result \in {"vector", "null"}

\* C34 witness: the call has used up its attempts on context-length errors,
\* the second request carried half of a cut prompt, and no vector came back
C34_Witness ==
    /\ ecpc = "returned"
    /\ Len(outcomes) = EMBEDDING_RETRY_ATTEMPTS
    /\ \A i \in 1..Len(outcomes) : outcomes[i].answer = "context_length"
    /\ outcomes[1].chars = EMBEDDING_MAX_CHARS
    /\ outcomes[2].chars = EMBEDDING_MAX_CHARS \div 2
    /\ call_result = "null"

\* C35: over repeated passes of the chunk-embedding stage every enriched chunk
\* whose embedding call would succeed is eventually embedded, whatever the
\* number of enriched chunks whose embedding fails on every attempt.
C35_SucceedingChunkEmbedded ==
    \A c \in EmbedChunks :
        (call_succeeds[c] /\ ~pass_embedding[c]) ~> pass_embedding[c]

\* C36: with the enrichment batches repeated under fair scheduling, every
\* document whose doc_status is pending eventually leaves pending.
C36_PendingEventuallyClaimed ==
    \A d \in Docs : (doc_status[d] = "pending") ~> (doc_status[d] # "pending")

====
